---- MODULE Spec2Model ----
(***************************************************************************)
(* Model of the az-rs metadata-driven invocation engine:                   *)
(*   - cmd.rs               ResourceId (trim, validate_pattern)            *)
(*   - api/metadata_command.rs  Command::match_condition, match_operator,  *)
(*                          select_operation_by_cond                       *)
(*   - api/invoke.rs        OperationInvocation::invoke                    *)
(*   - api/invoke.rs        BodyBuilder (build_body, build_value)          *)
(*   - lib.rs               run (the "api" subcommand pipeline)            *)
(*   - api/metadata_command.rs  Operation::schema_by_path                  *)
(*   - api/metadata_index.rs    Index::locate_command_file                 *)
(*   - api/cli_expander.rs  Shell::escape                                  *)
(*   - api.rs               ApiManager::run, the --stdin loop              *)
(*   - azidentityext/credential/refreshable_credential.rs                  *)
(*                          RefreshableCredential::get_token               *)
(*                                                                         *)
(* Strings whose characters matter (resource ids, path templates, path     *)
(* parameter names and values) are sequences of one-character strings.     *)
(* Option<T> is a sequence of length 0 (None) or 1 (Some).                 *)
(***************************************************************************)
EXTENDS Naturals, Sequences, FiniteSets, TLC

VARIABLES
    cmd_metadata,  \* run: the command document read for the located command
    arg_matches,   \* run: `matches`, the ArgMatches of the last subcommand
    std_in,        \* the process's standard input
    pc,            \* run: the statement reached
    cmd_cond,      \* run: Option of the condition variable (match_condition)
    selected,      \* run: `operation`, Option of the selected operation's index
    authored,      \* run: `body`, Option of the body authored with --file / --edit
    requests,      \* the calls of client.run made so far
    result,        \* run: how it ended, [kind, what]
    received,      \* invoke: `response`, Option of what client.run answered
    vp_raw,        \* SpecValidate: the id as typed by the user (untrimmed)
    vp_pattern,    \* SpecValidate: the path template (http.path)
    vp_method,     \* SpecValidate: the operation's method
    vp_result,     \* SpecValidate: Option of validate_pattern's result
    bb_schema,     \* SpecBuild: the schema node
    bb_matches,    \* SpecBuild: the ArgMatches the BodyBuilder wraps
    bb_value,      \* SpecBuild: Option of build_value's result
    bb_body,       \* SpecBuild: Option of build_body's result
    bb_paths,      \* SpecBuild: Option of the path looked up with schema_by_path
    bb_found,      \* SpecBuild: Option of schema_by_path's result
    lc_index,      \* SpecLocate: Index::command_groups
    lc_version,    \* SpecLocate: `api_version`, Option of the requested version
    lc_input,      \* SpecLocate: the positional arguments of the CLI input
    lc_result,     \* SpecLocate: Option of locate_command_file's result
    es_shell,      \* SpecEscape: the Shell
    es_arg,        \* SpecEscape: the serde_json::Value to escape
    es_out,        \* SpecEscape: Option of escape's result
    cr_session,    \* SpecCredential: the RefreshTokenSession inside the RwLock
    cr_profile,    \* SpecCredential: the session the profile file holds
    cr_readers,    \* SpecCredential: the calls holding the read lock
    cr_writer,     \* SpecCredential: Option of the call holding the write lock
    cr_pc,         \* SpecCredential: where each get_token call is
    cr_new,        \* SpecCredential: each call's `new_session`, as Option
    cr_ret,        \* SpecCredential: what each call returned, [kind, token]
    cr_exchanges,  \* SpecCredential: the refresh exchanges made so far
    cr_now,        \* SpecCredential: OffsetDateTime::now_utc(), in minutes
    bk_lines,      \* SpecBulk: the lines of stdin
    bk_print_cli,  \* SpecBulk: --print-cli was passed
    bk_next,       \* SpecBulk: the number of the line the loop is at
    bk_pc,         \* SpecBulk: "loop", or "invoke" while invoke is awaited
    bk_results,    \* SpecBulk: `results`
    bk_invoked,    \* SpecBulk: the lines invoke was called for, in call order
    bk_ret         \* SpecBulk: Option of what run returned

run_vars == <<cmd_metadata, arg_matches, std_in, pc, cmd_cond, selected, authored, requests, result, received>>
vp_vars == <<vp_raw, vp_pattern, vp_method, vp_result>>
bb_vars == <<bb_schema, bb_matches, bb_value, bb_body, bb_paths, bb_found>>
lc_vars == <<lc_index, lc_version, lc_input, lc_result>>
es_vars == <<es_shell, es_arg, es_out>>
cr_vars == <<cr_session, cr_profile, cr_readers, cr_writer, cr_pc, cr_new, cr_ret,
             cr_exchanges, cr_now>>
bk_vars == <<bk_lines, bk_print_cli, bk_next, bk_pc, bk_results, bk_invoked, bk_ret>>
ext_vars == <<lc_vars, es_vars, cr_vars, bk_vars>>
vars == <<run_vars, vp_vars, bb_vars, ext_vars>>

(***************************************************************************)
(* Option<T>                                                               *)
(***************************************************************************)
None == <<>>
Some(x) == <<x>>
IsSome(o) == Len(o) = 1
IsNone(o) == Len(o) = 0
Unwrap(o) == o[1]

(***************************************************************************)
(* Character strings                                                       *)
(***************************************************************************)
\* The letters of the model's alphabet, lower case -> upper case.
UpperOf == [c \in {"a", "b", "s", "t", "x", "y"} |->
              CASE c = "a" -> "A" [] c = "b" -> "B" [] c = "s" -> "S"
                [] c = "t" -> "T" [] c = "x" -> "X" [] c = "y" -> "Y"]

\* char::to_uppercase
ToUpperChar(c) == IF c \in DOMAIN UpperOf THEN UpperOf[c] ELSE c

\* str::to_uppercase
ToUpper(s) == [i \in 1..Len(s) |-> ToUpperChar(s[i])]

\* str::to_lowercase (used only to state case-insensitivity)
ToLowerChar(c) == IF \E l \in DOMAIN UpperOf : UpperOf[l] = c
                  THEN CHOOSE l \in DOMAIN UpperOf : UpperOf[l] = c
                  ELSE c
ToLower(s) == [i \in 1..Len(s) |-> ToLowerChar(s[i])]

\* str::trim_end_matches(c): strips every trailing c
RECURSIVE TrimEndMatches(_, _)
TrimEndMatches(s, c) ==
    IF Len(s) > 0 /\ s[Len(s)] = c
    THEN TrimEndMatches(SubSeq(s, 1, Len(s) - 1), c)
    ELSE s

\* str::split(c): the segments between occurrences of c; "" splits into [""]
RECURSIVE Split(_, _)
Split(s, c) ==
    IF \E i \in 1..Len(s) : s[i] = c
    THEN LET i == CHOOSE k \in 1..Len(s) :
                      s[k] = c /\ \A j \in 1..(k - 1) : s[j] # c
         IN  <<SubSeq(s, 1, i - 1)>> \o Split(SubSeq(s, i + 1, Len(s)), c)
    ELSE <<s>>

\* [String]::join(c)
RECURSIVE Join(_, _)
Join(segs, c) ==
    IF Len(segs) = 0 THEN <<>>
    ELSE IF Len(segs) = 1 THEN segs[1]
    ELSE segs[1] \o <<c>> \o Join(Tail(segs), c)

\* str::starts_with("{")
StartsWithBrace(seg) == Len(seg) > 0 /\ seg[1] = "{"

(***************************************************************************)
(* metadata_command.rs: Method                                             *)
(***************************************************************************)
Method == {"head", "get", "put", "patch", "post", "delete"}

(***************************************************************************)
(* cmd.rs: ResourceId                                                      *)
(***************************************************************************)
\* Mutant of ResourceIdFrom: the id is kept as typed
ResourceIdFrom_NoTrim(value) == value

\* impl From<S> for ResourceId: the id with its trailing slashes stripped
ResourceIdFrom(value) == TrimEndMatches(value, "/")

\* Vec::pop on the pattern segments (a no-op on an empty vector)
Pop(segs) == IF Len(segs) = 0 THEN segs ELSE SubSeq(segs, 1, Len(segs) - 1)

\* Mutant of PatternSegs: the last segment is kept for POST too
PatternSegs_NoPop(pattern, method) == Split(ToUpper(pattern), "/")

\* The segments the validator compares the id's segments with
PatternSegs(pattern, method) ==
    LET segs == Split(ToUpper(pattern), "/")
    IN  IF method = "post" THEN Pop(segs) ELSE segs

\* ResourceId::validate_pattern: "Ok", or the error it bails with
validate_pattern(self, pattern, method) ==
    LET arg_segs     == Split(ToUpper(self), "/")
        pattern_segs == PatternSegs(pattern, method)
    IN  IF Len(arg_segs) # Len(pattern_segs)
        THEN "ErrUnexpectedLength"
        ELSE IF \E i \in 1..Len(arg_segs) :
                    /\ ~StartsWithBrace(pattern_segs[i])
                    /\ arg_segs[i] # pattern_segs[i]
             THEN "ErrUnexpectedSegment"
             ELSE "Ok"

(***************************************************************************)
(* clap::ArgMatches, as the engine reads it, and the process's stdin       *)
(*   matches.id   : Option of the --id value                               *)
(*   matches.args : the bound arguments, argument key -> value             *)
(*   stdin.id     : Option of the raw "id" of the JSON object on stdin     *)
(*                  (None: not a JSON object with a string "id")           *)
(*   stdin.eof    : the input has been read to its end                     *)
(***************************************************************************)
\* ArgMatches::get_one::<String>(arg)
get_one(matches, arg) ==
    IF arg \in DOMAIN matches.args THEN Some(matches.args[arg]) ELSE None

\* Mutant of has_raw: the test is inverted
has_raw_Absent(matches, arg) == arg \notin DOMAIN matches.args

\* ArgMatches::get_raw(arg).is_some()
has_raw(matches, arg) == arg \in DOMAIN matches.args

\* The --id value that asks for the id to be read from stdin
Dash == <<"-">>

\* ResourceId::from_stdin (not wasm32): Result<ResourceId>, Err as None.  A
\* second read finds the input at its end: the empty text is no JSON.
from_stdin(stdin) ==
    IF stdin.eof \/ IsNone(stdin.id) THEN None
    ELSE Some(ResourceIdFrom(Unwrap(stdin.id)))

\* stdin after read_to_string
Consumed(stdin) == [stdin EXCEPT !.eof = TRUE]

(***************************************************************************)
(* metadata_command.rs: ConditionOperator and Command::match_operator      *)
(*   A node is [kind, type_, operators, arg]: kind is the serde variant    *)
(*   (Operators / Operator / Arg), operators its children (exactly one for *)
(*   Operator, none for Arg), arg the argument key of an Arg node.         *)
(***************************************************************************)
ConditionOperatorType == {"hasValue", "not", "and", "or"}

Operators(type_, operators) ==
    [kind |-> "Operators", type_ |-> type_, operators |-> operators, arg |-> ""]
Operator(type_, operator) ==
    [kind |-> "Operator", type_ |-> type_, operators |-> <<operator>>, arg |-> ""]
Arg(type_, arg) ==
    [kind |-> "Arg", type_ |-> type_, operators |-> <<>>, arg |-> arg]

Min(S) == CHOOSE m \in S : \A n \in S : m <= n

\* Iterator::find over the values rs[1..]: the first index whose value is not
\* `skip`, as Option
FirstNot(rs, skip) ==
    LET hit == { i \in 1..Len(rs) : rs[i] # skip }
    IN  IF hit = {} THEN None ELSE Some(Min(hit))

\* Mutant of IterAll: `any` where `all` is meant
IterAll_AsAny(rs) ==
    LET f == FirstNot(rs, "false") IN IF IsNone(f) THEN "false" ELSE rs[Unwrap(f)]

\* Iterator::all: stops at the first child that is not true
IterAll(rs) ==
    LET f == FirstNot(rs, "true") IN IF IsNone(f) THEN "true" ELSE rs[Unwrap(f)]

\* Iterator::any: stops at the first child that is not false
IterAny(rs) ==
    LET f == FirstNot(rs, "false") IN IF IsNone(f) THEN "false" ELSE rs[Unwrap(f)]

\* Mutant of Negate: the child's result is passed on
Negate_Identity(r) == r

\* !b, a panic of the child propagating
Negate(r) == CASE r = "true" -> "false" [] r = "false" -> "true" [] OTHER -> r

\* Command::match_operator: "true", "false", or "panic" (unreachable!)
RECURSIVE match_operator(_, _)
match_operator(operator, matches) ==
    CASE operator.kind = "Operators" ->
            IF operator.type_ \in {"not", "hasValue"} THEN "panic"
            ELSE LET rs == [i \in 1..Len(operator.operators) |->
                               match_operator(operator.operators[i], matches)]
                 IN  IF operator.type_ = "and" THEN IterAll(rs) ELSE IterAny(rs)
      [] operator.kind = "Operator" ->
            IF operator.type_ = "not"
            THEN Negate(match_operator(operator.operators[1], matches))
            ELSE "panic"
      [] operator.kind = "Arg" ->
            IF operator.type_ = "hasValue"
            THEN (IF has_raw(matches, operator.arg) THEN "true" ELSE "false")
            ELSE "panic"

(***************************************************************************)
(* metadata_command.rs: Command                                            *)
(*   cmd = [conditions : Option(Seq([var, operator])),                     *)
(*          operations : Seq([http : Option(Http), when : Option(Seq)])]   *)
(***************************************************************************)
\* op.when.clone().unwrap_or(vec![])
WhenOf(op) == IF IsSome(op.when) THEN Unwrap(op.when) ELSE <<>>

\* Mutant of select_operation_by_cond: without a condition variable, the first
\* operation of a non-empty list
select_operation_AnyCount(self, cond) ==
    IF IsSome(cond)
    THEN LET hit == { i \in 1..Len(self.operations) :
                        \E k \in 1..Len(WhenOf(self.operations[i])) :
                            WhenOf(self.operations[i])[k] = Unwrap(cond) }
         IN  IF hit = {} THEN None ELSE Some(Min(hit))
    ELSE IF Len(self.operations) = 0 THEN None ELSE Some(1)

\* Mutant of select_operation_by_cond: only the first `when` tag is compared
select_operation_FirstTag(self, cond) ==
    IF IsSome(cond)
    THEN LET hit == { i \in 1..Len(self.operations) :
                        /\ Len(WhenOf(self.operations[i])) > 0
                        /\ WhenOf(self.operations[i])[1] = Unwrap(cond) }
         IN  IF hit = {} THEN None ELSE Some(Min(hit))
    ELSE IF Len(self.operations) # 1 THEN None ELSE Some(1)

\* Command::select_operation_by_cond: Option of the operation's index
select_operation_by_cond(self, cond) ==
    IF IsSome(cond)
    THEN LET hit == { i \in 1..Len(self.operations) :
                        \E k \in 1..Len(WhenOf(self.operations[i])) :
                            WhenOf(self.operations[i])[k] = Unwrap(cond) }
         IN  IF hit = {} THEN None ELSE Some(Min(hit))
    ELSE IF Len(self.operations) # 1 THEN None ELSE Some(1)

\* The operations whose http.path the id validates against
PathMatches(self, id) ==
    { i \in 1..Len(self.operations) :
        /\ IsSome(self.operations[i].http)
        /\ LET http == Unwrap(self.operations[i].http)
           IN  validate_pattern(id, http.path, http.request.method) = "Ok" }

\* Vec::last
LastOf(seq) == IF Len(seq) = 0 THEN None ELSE Some(seq[Len(seq)])

\* Mutant of last_when: the first tag
last_when_First(op) ==
    IF IsNone(op.when) \/ Len(Unwrap(op.when)) = 0 THEN None ELSE Some(Unwrap(op.when)[1])

\* .and_then(|op| op.when.as_ref()).and_then(|when| when.last()).cloned()
last_when(op) == IF IsNone(op.when) THEN None ELSE LastOf(Unwrap(op.when))

\* Command::match_condition: [panicked, cond : Option(var), stdin after]
match_condition(self, matches, stdin) ==
    IF IsNone(self.conditions)
    THEN [panicked |-> FALSE, cond |-> None, stdin |-> stdin]
    ELSE IF IsSome(matches.id)
    THEN LET dash   == Unwrap(matches.id) = Dash
             idr    == IF dash THEN from_stdin(stdin)
                       ELSE Some(ResourceIdFrom(Unwrap(matches.id)))
             after  == IF dash THEN Consumed(stdin) ELSE stdin
             hit    == PathMatches(self, Unwrap(idr))
             op     == self.operations[Min(hit)]
         IN  [panicked |-> FALSE,
              cond     |-> IF IsNone(idr) \/ hit = {} THEN None ELSE last_when(op),
              stdin    |-> after]
    ELSE LET conds == Unwrap(self.conditions)
             rs    == [i \in 1..Len(conds) |-> match_operator(conds[i].operator, matches)]
             f     == FirstNot(rs, "false")
         IN  [panicked |-> IsSome(f) /\ rs[Unwrap(f)] = "panic",
              cond     |-> IF IsSome(f) /\ rs[Unwrap(f)] = "true"
                           THEN Some(conds[Unwrap(f)].var) ELSE None,
              stdin    |-> stdin]

(***************************************************************************)
(* serde_json::Value                                                       *)
(*   A value is the set of its leaves <<path, kind, text>>: path the keys  *)
(*   from the root, kind/text the scalar (arrays are kept as one leaf of   *)
(*   their text; the empty object is the leaf "{}").                       *)
(***************************************************************************)
Leaf(kind, text) == { << <<>>, kind, text >> }
EmptyObject == Leaf("object", "{}")
Prefixed(k, v) == { << <<k>> \o e[1], e[2], e[3] >> : e \in v }

\* Value::Object(map), map a function from keys to values
Object(map) ==
    IF DOMAIN map = {} THEN EmptyObject
    ELSE UNION { Prefixed(k, map[k]) : k \in DOMAIN map }

\* Mutant of from_str: a number is read as a string
from_str_NumbersAsStrings(text) ==
    CASE text = "true"  -> Some(Leaf("bool", "true"))
      [] text = "123"   -> Some(Leaf("string", "123"))
      [] text = "\"s\"" -> Some(Leaf("string", "s"))
      [] text = "[1]"   -> Some(Leaf("array", "[1]"))
      [] text = "null"  -> Some(Leaf("null", "null"))
      [] text = "{\"k\":1}" -> Some(Object([k \in {"k"} |-> Leaf("string", "1")]))
      [] OTHER -> None

\* serde_json::from_str::<Value>: Result<Value>, Err as None.  The texts are
\* the ones the model binds to body arguments.
from_str(text) ==
    CASE text = "true"  -> Some(Leaf("bool", "true"))
      [] text = "123"   -> Some(Leaf("number", "123"))
      [] text = "\"s\"" -> Some(Leaf("string", "s"))
      [] text = "[1]"   -> Some(Leaf("array", "[1]"))
      [] text = "null"  -> Some(Leaf("null", "null"))
      [] text = "{\"k\":1}" -> Some(Object([k \in {"k"} |-> Leaf("number", "1")]))
      [] OTHER -> None

\* Mutant of StringValue: a text that is a JSON string is unquoted
StringValue_Parsed(text) ==
    IF text = "\"s\"" THEN Leaf("string", "s") ELSE Leaf("string", text)

\* String -> Value (From<String>): the JSON string holding the text
StringValue(text) == Leaf("string", text)

Max(S) == CHOOSE m \in S : \A n \in S : n <= m

(***************************************************************************)
(* invoke.rs: BodyBuilder                                                  *)
(*   Schema = [type_, name : Option, required : Option, arg : Option,      *)
(*             props : Option(Seq)]                                        *)
(*   Result<T> is [ok, val]; val is meaningful when ok.                    *)
(***************************************************************************)
Err == [ok |-> FALSE, val |-> None]
Ok(v) == [ok |-> TRUE, val |-> v]

\* Mutant of ParsedArg: the bound text is kept as a JSON string, unparsed
ParsedArg_Unparsed(schema, matches, nullIsNone) ==
    LET value == get_one(matches, Unwrap(schema.arg))
    IN  IF IsNone(value) THEN Ok(None) ELSE Ok(Some(Leaf("string", Unwrap(value))))

\* The schema's argument parsed as JSON text (the "object" and `_` arms);
\* the `_` arm deserializes into Option<Value>, for which null is None.
ParsedArg(schema, matches, nullIsNone) ==
    LET value == get_one(matches, Unwrap(schema.arg))
        parsed == from_str(Unwrap(value))
    IN  IF IsNone(value) THEN Ok(None)
        ELSE IF IsNone(parsed) THEN Err
        ELSE IF nullIsNone /\ Unwrap(parsed) = Leaf("null", "null") THEN Ok(None)
        ELSE Ok(parsed)

RECURSIVE build_value(_, _)

\* Mutant of build_props: a required child without a value is an error
build_props_CheckRequired(props, matches) ==
    LET rs == [i \in 1..Len(props) |->
                  IF IsNone(props[i].name) THEN Err ELSE build_value(props[i], matches)]
        present == { i \in 1..Len(props) : IsSome(rs[i].val) }
        keys == { Unwrap(props[i].name) : i \in present }
    IN  IF \E i \in 1..Len(props) :
              ~rs[i].ok \/ (props[i].required = Some(TRUE) /\ i \notin present)
        THEN [ok |-> FALSE, val |-> <<>>]
        ELSE [ok |-> TRUE,
              val |-> [k \in keys |->
                         Unwrap(rs[Max({ i \in present : Unwrap(props[i].name) = k })].val)]]

\* The loop over props shared by build_body and build_value: Result of the
\* map built (a later insert of the same key replaces the earlier one)
build_props(props, matches) ==
    LET rs == [i \in 1..Len(props) |->
                  IF IsNone(props[i].name) THEN Err ELSE build_value(props[i], matches)]
        present == { i \in 1..Len(props) : IsSome(rs[i].val) }
        keys == { Unwrap(props[i].name) : i \in present }
    IN  IF \E i \in 1..Len(props) : ~rs[i].ok THEN [ok |-> FALSE, val |-> <<>>]
        ELSE [ok |-> TRUE,
              val |-> [k \in keys |->
                         Unwrap(rs[Max({ i \in present : Unwrap(props[i].name) = k })].val)]]

\* BodyBuilder::build_value: Result<Option<Value>>
build_value(schema, matches) ==
    CASE schema.type_ = "object" ->
            IF IsSome(schema.arg) THEN ParsedArg(schema, matches, FALSE)
            ELSE IF IsSome(schema.props)
            THEN LET m == build_props(Unwrap(schema.props), matches)
                 IN  IF ~m.ok THEN Err
                     ELSE IF DOMAIN m.val = {} THEN Ok(None)
                     ELSE Ok(Some(Object(m.val)))
            ELSE Err
      [] schema.type_ = "string" ->
            IF IsSome(schema.arg)
            THEN LET value == get_one(matches, Unwrap(schema.arg))
                 IN  IF IsSome(value) THEN Ok(Some(StringValue(Unwrap(value))))
                     ELSE Ok(None)
            ELSE Err
      [] OTHER ->
            IF IsSome(schema.arg) THEN ParsedArg(schema, matches, TRUE) ELSE Err

\* BodyBuilder::build_body: Result<Value>, as [ok, val : Option(Value)]
build_body(schema, matches) ==
    IF IsSome(schema.props)
    THEN LET m == build_props(Unwrap(schema.props), matches)
         IN  IF m.ok THEN Ok(Some(Object(m.val))) ELSE Err
    ELSE Err

(***************************************************************************)
(* metadata_command.rs: Operation::schema_by_path                          *)
(***************************************************************************)
\* Mutant of schema_by_path: the builder's rule, a node with arg or of
\* another type than object is not descended into
RECURSIVE schema_by_path_BuilderRule(_, _)
schema_by_path_BuilderRule(schema, paths) ==
    IF IsNone(schema) THEN None
    ELSE IF paths = <<>> THEN schema
    ELSE LET node == Unwrap(schema)
             props == IF IsSome(node.props) /\ IsNone(node.arg) /\ node.type_ = "object"
                      THEN Unwrap(node.props) ELSE <<>>
             named == { i \in 1..Len(props) : props[i].name = Some(paths[1]) }
         IN  IF named = {} THEN None
             ELSE schema_by_path_BuilderRule(Some(props[Min(named)]), Tail(paths))

\* Operation::schema_by_path, `schema` being the Option of the operation's
\* http.request.body.json.schema: Option<&Schema>
RECURSIVE schema_by_path(_, _)
schema_by_path(schema, paths) ==
    IF IsNone(schema) THEN None
    ELSE IF paths = <<>> THEN schema
    ELSE LET node == Unwrap(schema)
             props == IF IsSome(node.props) THEN Unwrap(node.props) ELSE <<>>
             named == { i \in 1..Len(props) : props[i].name = Some(paths[1]) }
         IN  IF named = {} THEN None
             ELSE schema_by_path(Some(props[Min(named)]), Tail(paths))

(***************************************************************************)
(* invoke.rs: OperationInvocation::invoke, up to the transport call        *)
(*   Http = [path, request : [method, path : [params], query : [consts,    *)
(*           params : Option], body : Option([json : [schema : Option]])], *)
(*           responses]                                                    *)
(***************************************************************************)
\* str::replace(from, to): every non-overlapping occurrence, left to right
RECURSIVE Replace(_, _, _)
Replace(s, from, to) ==
    IF Len(s) < Len(from) THEN s
    ELSE IF SubSeq(s, 1, Len(from)) = from
    THEN to \o Replace(SubSeq(s, Len(from) + 1, Len(s)), from, to)
    ELSE <<s[1]>> \o Replace(Tail(s), from, to)

\* Mutant of Placeholder: the braces are forgotten
Placeholder_NoBraces(name) == name

\* format!("{{{}}}", param.name)
Placeholder(name) == <<"{">> \o name \o <<"}">>

\* Mutant of build_path: an unbound parameter that is not required is skipped
RECURSIVE build_path_SkipOptional(_, _, _)
build_path_SkipOptional(path, params, matches) ==
    IF Len(params) = 0 THEN [status |-> "Ok", path |-> path]
    ELSE LET param == Head(params)
             value == get_one(matches, param.arg)
         IN  IF IsSome(value)
             THEN build_path_SkipOptional(
                      Replace(path, <<"{">> \o param.name \o <<"}">>, Unwrap(value)),
                      Tail(params), matches)
             ELSE IF param.required = Some(TRUE)
             THEN [status |-> "ErrMissingRequired", path |-> path]
             ELSE build_path_SkipOptional(path, Tail(params), matches)

\* The loop over http.request.path.params: [status, path]; status is "Ok",
\* "ErrMissingRequired" (bail!) or "PanicOptional" (unreachable!)
RECURSIVE build_path(_, _, _)
build_path(path, params, matches) ==
    IF Len(params) = 0 THEN [status |-> "Ok", path |-> path]
    ELSE LET param == Head(params)
             value == get_one(matches, param.arg)
         IN  IF IsSome(value)
             THEN build_path(Replace(path, Placeholder(param.name), Unwrap(value)),
                             Tail(params), matches)
             ELSE IF param.required = Some(TRUE)
             THEN [status |-> "ErrMissingRequired", path |-> path]
             ELSE [status |-> "PanicOptional", path |-> path]

\* Mutant of id_path: nothing is appended for POST
id_path_NoAction(id, http) == id

\* The path in --id mode, once the id validated: the id, and for POST the
\* template's last segment after a slash
id_path(id, http) ==
    IF http.request.method = "post"
    THEN id \o <<"/">> \o Unwrap(LastOf(Split(http.path, "/")))
    ELSE id

\* HashMap::insert
Insert(map, k, v) == [x \in DOMAIN map \cup {k} |-> IF x = k THEN v ELSE map[x]]

\* The loop over http.request.query.consts: only api-version is handled
RECURSIVE query_consts(_, _, _)
query_consts(pairs, consts, matches) ==
    IF Len(consts) = 0 THEN pairs
    ELSE LET param == Head(consts)
             value == get_one(matches, "api-version")
             next  == IF param.name # "api-version" THEN pairs
                      ELSE IF IsSome(value) THEN Insert(pairs, param.name, Unwrap(value))
                      ELSE Insert(pairs, param.name, param.default.value)
         IN  query_consts(next, Tail(consts), matches)

\* The loop over http.request.query.params
RECURSIVE query_params(_, _, _)
query_params(pairs, params, matches) ==
    IF Len(params) = 0 THEN pairs
    ELSE LET param == Head(params)
             value == get_one(matches, param.arg)
         IN  query_params(IF IsSome(value) THEN Insert(pairs, param.name, Unwrap(value))
                          ELSE pairs,
                          Tail(params), matches)

\* query_pairs as invoke builds it
query_pairs(http, matches) ==
    LET consts == query_consts(<<>>, http.request.query.consts, matches)
    IN  IF IsSome(http.request.query.params)
        THEN query_params(consts, Unwrap(http.request.query.params), matches)
        ELSE consts

\* Mutant of request_body: a body that cannot be built is left out
request_body_Unchecked(http, matches, body) ==
    IF IsSome(body) THEN Ok(body)
    ELSE IF IsSome(http.request.body)
    THEN LET schema == Unwrap(http.request.body).json.schema
         IN  IF IsSome(schema) /\ build_body(Unwrap(schema), matches).ok
             THEN build_body(Unwrap(schema), matches) ELSE Ok(None)
    ELSE Ok(None)

\* The request body invoke hands to the transport: Result<Option<Value>>
request_body(http, matches, body) ==
    IF IsSome(body) THEN Ok(body)
    ELSE IF IsSome(http.request.body)
    THEN LET schema == Unwrap(http.request.body).json.schema
         IN  IF IsSome(schema) THEN build_body(Unwrap(schema), matches) ELSE Ok(None)
    ELSE Ok(None)

\* invoke from its start to the call of client.run:
\*   [outcome, what, request : Option, stdin]
\*   outcome "Send": client.run is called with the request
\*   outcome "Err": invoke returns the error `what`
\*   outcome "Panic": the thread panics (`what` names the place)
invoke_request(operation, matches, body, stdin) ==
    IF IsNone(operation.http)
    THEN [outcome |-> "Err", what |-> "HttpInfoNotFound", request |-> None, stdin |-> stdin]
    ELSE
    LET http  == Unwrap(operation.http)
        byId  == IsSome(matches.id)
        dash  == byId /\ Unwrap(matches.id) = Dash
        idr   == IF dash THEN from_stdin(stdin)
                 ELSE Some(ResourceIdFrom(Unwrap(matches.id)))
        after == IF dash THEN Consumed(stdin) ELSE stdin
        valid == validate_pattern(Unwrap(idr), http.path, http.request.method)
        built == build_path(http.path, http.request.path.params, matches)
        path  == IF byId THEN id_path(Unwrap(idr), http) ELSE built.path
        pairs == query_pairs(http, matches)
        rbody == request_body(http, matches, body)
        fail(outcome, what) ==
            [outcome |-> outcome, what |-> what, request |-> None, stdin |-> after]
    IN  IF byId /\ IsNone(idr) THEN fail("Err", "ErrStdin")
        ELSE IF byId /\ valid # "Ok" THEN fail("Err", valid)
        ELSE IF ~byId /\ built.status = "ErrMissingRequired"
        THEN fail("Err", "ErrMissingRequired")
        ELSE IF ~byId /\ built.status = "PanicOptional"
        THEN fail("Panic", "PanicOptional")
        ELSE IF ~rbody.ok THEN fail("Err", "ErrBody")
        ELSE IF "api-version" \notin DOMAIN pairs THEN fail("Panic", "PanicApiVersion")
        ELSE [outcome |-> "Send", what |-> "",
              request |-> Some([method      |-> http.request.method,
                                path        |-> path,
                                api_version |-> pairs["api-version"],
                                body        |-> rbody.val]),
              stdin |-> after]

\* Mutant of route: a declared response flagged isError never matches
route_SkipErrors(http, response) ==
    IF \E i \in 1..Len(http.responses) :
           /\ http.responses[i].is_error # Some(TRUE)
           /\ IsSome(http.responses[i].status_code)
           /\ response.status_code \in Unwrap(http.responses[i].status_code)
    THEN (IF response.utf8 THEN [kind |-> "Ok", what |-> "ResponseBody"]
          ELSE [kind |-> "Err", what |-> "ErrUtf8"])
    ELSE [kind |-> "Err", what |-> "ErrResponse"]

\* invoke after the transport's response: the routed result [kind, what]
route(http, response) ==
    IF \E i \in 1..Len(http.responses) :
           /\ IsSome(http.responses[i].status_code)
           /\ response.status_code \in Unwrap(http.responses[i].status_code)
    THEN (IF response.utf8 THEN [kind |-> "Ok", what |-> "ResponseBody"]
          ELSE [kind |-> "Err", what |-> "ErrUtf8"])
    ELSE [kind |-> "Err", what |-> "ErrResponse"]

(***************************************************************************)
(* lib.rs: run, the "api" subcommand from the command document on          *)
(***************************************************************************)
Pending == [kind |-> "Pending", what |-> ""]

\* Operation::contains_request_body
contains_request_body(op) ==
    IF IsSome(op.http)
    THEN Unwrap(op.http).request.method \in {"put", "patch", "post"}
    ELSE FALSE

\* The operation run selected
SelectedOp == cmd_metadata.operations[Unwrap(selected)]

\* A body authored as HCL and converted to JSON
AuthoredBody == Object([k \in {"authored"} |-> Leaf("string", "v")])

\* The status codes and bodies the transport answers with
StatusCodes == {200, 201, 404}
Responses == [status_code : StatusCodes, utf8 : BOOLEAN]

Finish(kind, what) ==
    /\ pc' = "done"
    /\ result' = [kind |-> kind, what |-> what]

\* lib.rs:64  cmd_metadata.match_condition(&matches)
MatchCondition ==
    /\ pc = "match"
    /\ LET r == match_condition(cmd_metadata, arg_matches, std_in)
       IN  /\ std_in' = r.stdin
           /\ IF r.panicked
              THEN /\ Finish("Panic", "PanicOperator")
                   /\ UNCHANGED cmd_cond
              ELSE /\ cmd_cond' = r.cond
                   /\ pc' = "select"
                   /\ UNCHANGED result
    /\ UNCHANGED <<cmd_metadata, arg_matches, selected, authored, requests, received, vp_vars, bb_vars, ext_vars>>

\* lib.rs:65-69  select_operation_by_cond(cmd_cond).ok_or(..)?
SelectOperation ==
    /\ pc = "select"
    /\ LET o == select_operation_by_cond(cmd_metadata, cmd_cond)
       IN  IF IsNone(o)
           THEN /\ Finish("Err", "ErrSelect")
                /\ UNCHANGED selected
           ELSE /\ selected' = o
                /\ pc' = "prepare"
                /\ UNCHANGED result
    /\ UNCHANGED <<cmd_metadata, arg_matches, std_in, cmd_cond, authored, requests, received, vp_vars, bb_vars, ext_vars>>

\* lib.rs:71-121  the authored body, --print-cli, and the client.  What the
\* user passed (--file, --edit, --print-cli, a credential) is drawn here.
PrepareBody ==
    /\ pc = "prepare"
    /\ \E how \in {"none", "authored", "unreadable", "print-cli", "no-credential"} :
          /\ how \in {"authored", "unreadable", "print-cli"}
                => contains_request_body(SelectedOp)
          /\ CASE how = "none" ->
                    /\ pc' = "invoke"
                    /\ UNCHANGED <<authored, result>>
               [] how = "authored" ->
                    /\ authored' = Some(AuthoredBody)
                    /\ pc' = "invoke"
                    /\ UNCHANGED result
               [] how = "unreadable" ->
                    /\ Finish("Err", "ErrAuthoredBody")
                    /\ UNCHANGED authored
               [] how = "print-cli" ->
                    /\ Finish("Ok", "PrintedCli")
                    /\ UNCHANGED authored
               [] how = "no-credential" ->
                    /\ Finish("Panic", "PanicLoginRequired")
                    /\ UNCHANGED authored
    /\ UNCHANGED <<cmd_metadata, arg_matches, std_in, cmd_cond, selected, requests, received, vp_vars, bb_vars, ext_vars>>

\* lib.rs:122, invoke.rs:28-112  invoke up to the call of client.run
Invoke ==
    /\ pc = "invoke"
    /\ LET r == invoke_request(SelectedOp, arg_matches, authored, std_in)
       IN  /\ std_in' = r.stdin
           /\ IF r.outcome = "Send"
              THEN /\ requests' = Append(requests, Unwrap(r.request))
                   /\ pc' = "await"
                   /\ UNCHANGED result
              ELSE /\ Finish(r.outcome, r.what)
                   /\ UNCHANGED requests
    /\ UNCHANGED <<cmd_metadata, arg_matches, cmd_cond, selected, authored, received, vp_vars, bb_vars, ext_vars>>

\* invoke.rs:112-124  the transport fails, or answers and the response is routed
Respond ==
    /\ pc = "await"
    /\ \/ /\ Finish("Err", "ErrTransport")
          /\ UNCHANGED received
       \/ \E response \in Responses :
             /\ received' = Some(response)
             /\ pc' = "done"
             /\ result' = route(Unwrap(SelectedOp.http), response)
    /\ UNCHANGED <<cmd_metadata, arg_matches, std_in, cmd_cond, selected, authored, requests, vp_vars, bb_vars, ext_vars>>

Next ==
    \/ MatchCondition
    \/ SelectOperation
    \/ PrepareBody
    \/ Invoke
    \/ Respond

(***************************************************************************)
(* Inputs of run: command documents and arguments                          *)
(***************************************************************************)
MaxConds == 2
MaxOps == 2
MaxParams == 2

\* Sequences over S of length 0..n
SeqsFrom0(S, n) == UNION { [1..k -> S] : k \in 0..n }

\* Argument keys and the values bound to them
PathArgs == {"x", "y"}
ArgValue == [a \in PathArgs |-> IF a = "x" THEN <<"1">> ELSE <<"2">>]
Bound(S) == [a \in S |-> ArgValue[a]]

NoStdin == [eof |-> FALSE, id |-> None]

\* "/s/{x}", "/s/{x}/a", "/s/{x}/t/{y}"
TemplateSX == <<"/", "s", "/", "{", "x", "}">>
TemplateSXA == TemplateSX \o <<"/", "a">>
TemplateSXTY == TemplateSX \o <<"/", "t", "/", "{", "y", "}">>

ApiVersion == [name |-> "api-version", default |-> [value |-> "2024-01-01"]]

DeclaredResponses ==
    << [status_code |-> Some({200, 201}), is_error |-> None],
       [status_code |-> None, is_error |-> Some(TRUE)] >>

PathParam(name, required) == [name |-> name, arg |-> name[1], required |-> required]

MkHttp(path, method, params, consts) ==
    [path |-> path,
     request |-> [method |-> method,
                  path   |-> [params |-> params],
                  query  |-> [consts |-> consts, params |-> None],
                  body   |-> None],
     responses |-> DeclaredResponses]

CondVars == {"v1", "v2"}
WhenPool == { None, Some(<<"v1">>), Some(<<"v2">>), Some(<<"v1", "v2">>) }

HasValue(a) == Arg("hasValue", a)
XAndNotY == Operators("and", <<HasValue("x"), Operator("not", HasValue("y"))>>)
XAndY == Operators("and", <<HasValue("x"), HasValue("y")>>)

NotXOrY == Operators("or", <<Operator("not", HasValue("x")), HasValue("y")>>)

\* hasValue(x); x and not y; x and y; not x or y; a hasValue node mistyped
\* as "and"
CondOperatorPool == { HasValue("x"), XAndNotY, XAndY, NotXOrY, Arg("and", "x") }
ConditionPool == [var : CondVars, operator : CondOperatorPool]

\* Family A: discrete arguments, any conditions, operations told apart by `when`
HttpSX == MkHttp(TemplateSX, "get", <<PathParam(<<"x">>, Some(TRUE))>>, <<ApiVersion>>)
InitDiscrete ==
    /\ \E conds \in {None} \cup { Some(cs) : cs \in SeqsFrom0(ConditionPool, MaxConds) },
          ops \in SeqsFrom0([http : {Some(HttpSX)}, when : WhenPool], MaxOps) :
            cmd_metadata = [conditions |-> conds, operations |-> ops]
    /\ \E S \in SUBSET PathArgs : arg_matches = [id |-> None, args |-> Bound(S)]
    /\ std_in = NoStdin

\* Family B: --id, operations told apart by their templates and `when`
HttpPoolB ==
    { None,
      Some(MkHttp(TemplateSX, "get", <<PathParam(<<"x">>, Some(TRUE))>>, <<ApiVersion>>)),
      Some(MkHttp(TemplateSXA, "post", <<PathParam(<<"x">>, Some(TRUE))>>, <<ApiVersion>>)),
      Some(MkHttp(TemplateSXA, "put", <<PathParam(<<"x">>, Some(TRUE))>>, <<ApiVersion>>)) }

ListConditions ==
    << [var |-> "v1", operator |-> XAndNotY], [var |-> "v2", operator |-> XAndY] >>

\* "/S/1/", "/s/1/a", and the same read from stdin
IdS1 == <<"/", "S", "/", "1", "/">>
IdS1A == <<"/", "s", "/", "1", "/", "a">>
IdInputs ==
    { [id |-> Some(i), stdin |-> NoStdin] : i \in {IdS1, IdS1A} }
    \cup { [id |-> Some(Dash), stdin |-> [eof |-> FALSE, id |-> i]] : i \in {None, Some(IdS1)} }

InitById ==
    /\ \E conds \in {None, Some(ListConditions)},
          ops \in SeqsFrom0([http : HttpPoolB, when : WhenPool], MaxOps) :
            cmd_metadata = [conditions |-> conds, operations |-> ops]
    /\ \E i \in IdInputs :
          /\ arg_matches = [id |-> i.id, args |-> Bound({})]
          /\ std_in = i.stdin

\* Family C: one operation without conditions, any path parameters and method
ParamPool == { PathParam(<<n>>, r) : n \in PathArgs, r \in {None, Some(TRUE), Some(FALSE)} }
InitInvoke ==
    /\ \E path \in {TemplateSXA, TemplateSXTY}, method \in Method,
          params \in SeqsFrom0(ParamPool, MaxParams),
          consts \in {<<>>, <<ApiVersion>>} :
            cmd_metadata =
                [conditions |-> None,
                 operations |-> << [http |-> Some(MkHttp(path, method, params, consts)),
                                    when |-> None] >>]
    /\ \/ \E S \in SUBSET PathArgs :
             /\ arg_matches = [id |-> None, args |-> Bound(S)]
             /\ std_in = NoStdin
       \/ \E i \in IdInputs :
             /\ arg_matches = [id |-> i.id, args |-> Bound({})]
             /\ std_in = i.stdin

\* Family E: one operation tagged v1 and one condition v1 whose tree has a
\* node that does not fit: a mistyped leaf behind hasValue(x) in an "and";
\* an "and" with a single child; a "not" with a list of children behind
\* hasValue(x) in an "or"; a single-child node typed "and"
MisfitPool ==
    { Operators("and", <<HasValue("x"), Arg("and", "y")>>),
      Operators("and", <<HasValue("x")>>),
      Operators("or", <<HasValue("x"), Operators("not", <<HasValue("y")>>)>>),
      Operator("and", HasValue("x")) }
InitMisfit ==
    /\ \E tree \in MisfitPool :
          cmd_metadata =
              [conditions |-> Some(<<[var |-> "v1", operator |-> tree]>>),
               operations |-> << [http |-> Some(HttpSX), when |-> Some(<<"v1">>)] >>]
    /\ \E S \in SUBSET PathArgs : arg_matches = [id |-> None, args |-> Bound(S)]
    /\ std_in = NoStdin

\* Family D: one GET/PUT/... operation on /s/{x} with x bound; the query
\* constants, query parameters, body schema and declared responses vary, and
\* so do the api-version, query and body arguments the user binds.
OtherConst == [name |-> "c", default |-> [value |-> "1"]]
FilterParam == [name |-> "$filter", arg |-> "f"]

\* A schema node
Node(type_, name, arg, required, props) ==
    [type_ |-> type_, name |-> name, arg |-> arg, required |-> required, props |-> props]

\* { "a": <boolean from p> }, and the schema without properties
BodySchemaA ==
    Node("object", None, None, None,
         Some(<<Node("boolean", Some("a"), Some("p"), Some(TRUE), None)>>))
BodySchemaEmpty == Node("object", None, None, None, Some(<<>>))
BodyPool ==
    { None,
      Some([json |-> [schema |-> None]]),
      Some([json |-> [schema |-> Some(BodySchemaEmpty)]]),
      Some([json |-> [schema |-> Some(BodySchemaA)]]) }

\* The success codes and an error entry that has no codes; a success code
\* and an error entry that names 404; no declared response
ErrorDeclared ==
    << [status_code |-> Some({200}), is_error |-> None],
       [status_code |-> Some({404}), is_error |-> Some(TRUE)] >>
ResponsesPool == { DeclaredResponses, ErrorDeclared, <<>> }

\* The arguments of family D: x is bound, the others may be
RequestArgs ==
    { [a \in {"x"} \cup S |->
          CASE a = "x" -> <<"1">>
            [] a = "api-version" -> "2023-05-05"
            [] a = "f" -> "top"
            [] a = "p" -> t] :
      S \in SUBSET {"api-version", "f", "p"}, t \in {"true", "abc"} }

InitRequest ==
    /\ \E method \in Method,
          consts \in {<<ApiVersion>>, <<ApiVersion, OtherConst>>},
          params \in {None, Some(<<>>), Some(<<FilterParam>>)},
          body \in BodyPool,
          responses \in ResponsesPool :
            cmd_metadata =
                [conditions |-> None,
                 operations |->
                    << [http |-> Some(
                            [path |-> TemplateSX,
                             request |-> [method |-> method,
                                          path   |-> [params |-> <<PathParam(<<"x">>, Some(TRUE))>>],
                                          query  |-> [consts |-> consts, params |-> params],
                                          body   |-> body],
                             responses |-> responses]),
                        when |-> None] >>]
    /\ \E args \in RequestArgs : arg_matches = [id |-> None, args |-> args]
    /\ std_in = NoStdin

\* The parts of the program that `active` does not name are not used
ExtIdle(active) ==
    /\ IF active = "locate" THEN TRUE
       ELSE /\ lc_index = <<>>
            /\ lc_version = None
            /\ lc_input = <<>>
            /\ lc_result = None
    /\ IF active = "escape" THEN TRUE
       ELSE /\ es_shell = "Unix"
            /\ es_arg = [kind |-> "string", text |-> <<>>]
            /\ es_out = None
    /\ IF active = "credential" THEN TRUE
       ELSE /\ cr_session = [access_token |-> None, refresh_token |-> 0]
            /\ cr_profile = [access_token |-> None, refresh_token |-> 0]
            /\ cr_readers = {}
            /\ cr_writer = None
            /\ cr_pc = <<>>
            /\ cr_new = <<>>
            /\ cr_ret = <<>>
            /\ cr_exchanges = 0
            /\ cr_now = 0
    /\ IF active = "bulk" THEN TRUE
       ELSE /\ bk_lines = <<>>
            /\ bk_print_cli = FALSE
            /\ bk_next = 1
            /\ bk_pc = "idle"
            /\ bk_results = <<>>
            /\ bk_invoked = <<>>
            /\ bk_ret = None

\* The BodyBuilder is not used on its own
BbIdle ==
    /\ bb_schema = [type_ |-> "object", name |-> None, arg |-> None,
                    required |-> None, props |-> None]
    /\ bb_matches = [id |-> None, args |-> <<>>]
    /\ bb_value = None
    /\ bb_body = None
    /\ bb_paths = None
    /\ bb_found = None

VpIdle ==
    /\ vp_raw = <<>>
    /\ vp_pattern = <<>>
    /\ vp_method = "get"
    /\ vp_result = None

Init ==
    /\ InitDiscrete \/ InitById \/ InitInvoke \/ InitRequest \/ InitMisfit
    /\ pc = "match"
    /\ cmd_cond = None
    /\ selected = None
    /\ authored = None
    /\ requests = <<>>
    /\ result = Pending
    /\ received = None
    /\ VpIdle
    /\ BbIdle
    /\ ExtIdle("run")

Spec == Init /\ [][Next]_vars

(***************************************************************************)
(* Inputs of the validate_pattern specification                            *)
(***************************************************************************)
MaxIdSegs == 3
MaxPatternSegs == 3

\* Segments an id is made of: static names in either case, and the empty
\* segment (a leading, doubled or trailing slash).
IdSegPool == { <<>>, <<"s">>, <<"S">>, <<"a">> }

\* The methods drawn: validate_pattern only tells POST from the others.
ValidateMethods == {"get", "post", "delete"}

\* Segments a template is made of: static names in either case, a
\* placeholder, a placeholder followed by static text, the empty segment.
PatternSegPool ==
    { <<>>, <<"s">>, <<"A">>, <<"{", "x", "}">>, <<"{", "x", "}", "a">> }

SeqsUpTo(S, n) == UNION { [1..k -> S] : k \in 1..n }

RawIds == { Join(segs, "/") : segs \in SeqsUpTo(IdSegPool, MaxIdSegs) }
Patterns == { Join(segs, "/") : segs \in SeqsUpTo(PatternSegPool, MaxPatternSegs) }

(***************************************************************************)
(* Specification of validate_pattern as a function of its inputs           *)
(***************************************************************************)
\* run is not started
RunIdle ==
    /\ cmd_metadata = [conditions |-> None, operations |-> <<>>]
    /\ arg_matches = [id |-> None, args |-> <<>>]
    /\ std_in = [eof |-> FALSE, id |-> None]
    /\ pc = "idle"
    /\ cmd_cond = None
    /\ selected = None
    /\ authored = None
    /\ requests = <<>>
    /\ result = [kind |-> "Pending", what |-> ""]
    /\ received = None

InitValidate ==
    /\ vp_raw \in RawIds
    /\ vp_pattern \in Patterns
    /\ vp_method \in ValidateMethods
    /\ vp_result = None
    /\ RunIdle
    /\ BbIdle
    /\ ExtIdle("validate")

\* ResourceId::from(raw).validate_pattern(pattern, method)
ValidateStep ==
    /\ IsNone(vp_result)
    /\ vp_result' = Some(validate_pattern(ResourceIdFrom(vp_raw), vp_pattern, vp_method))
    /\ UNCHANGED <<vp_raw, vp_pattern, vp_method, run_vars, bb_vars, ext_vars>>

NextValidate == ValidateStep

SpecValidate == InitValidate /\ [][NextValidate]_vars

(***************************************************************************)
(* Claims about validate_pattern (checked under SpecValidate)              *)
(***************************************************************************)
\* A template segment of the form {...}
IsPlaceholder(seg) == Len(seg) >= 2 /\ seg[1] = "{" /\ seg[Len(seg)] = "}"

\* Two segments are equal ignoring case
EqIgnoreCase(a, b) == ToUpper(a) = ToUpper(b)

\* The template's segments the id is compared with: for POST the last is dropped
ComparedSegs(pattern, method) ==
    LET segs == Split(pattern, "/")
    IN  IF method = "post" THEN SubSeq(segs, 1, Len(segs) - 1) ELSE segs

\* The result the claim prescribes, with Wild(seg) saying which template
\* segments match any id segment
Prescribed(raw, pattern, method, Wild(_)) ==
    LET idSegs == Split(TrimEndMatches(raw, "/"), "/")
        tSegs  == ComparedSegs(pattern, method)
    IN  IF Len(idSegs) # Len(tSegs) THEN "ErrUnexpectedLength"
        ELSE IF \A i \in 1..Len(tSegs) :
                    Wild(tSegs[i]) \/ EqIgnoreCase(tSegs[i], idSegs[i])
             THEN "Ok"
             ELSE "ErrUnexpectedSegment"

\* C6 (as stated): validation succeeds iff the segment counts agree and every
\* template segment that is not of the form {...} equals the id's segment
\* ignoring case; a count mismatch is the length error, any other mismatch
\* the unexpected-segment error.
C6_AsStated ==
    IsSome(vp_result) =>
        Unwrap(vp_result) = Prescribed(vp_raw, vp_pattern, vp_method, IsPlaceholder)

\* C6 (amended): as C6, with the wildcard segments being the template
\* segments that start with "{" (whatever follows the brace).
C6_ValidatePattern ==
    IsSome(vp_result) =>
        Unwrap(vp_result) = Prescribed(vp_raw, vp_pattern, vp_method, StartsWithBrace)

\* A POST template one segment longer than the id, a static segment that
\* differs from the id's in case only, and a wildcard: validation succeeds.
C6_Witness ==
    /\ vp_result = Some("Ok")
    /\ vp_method = "post"
    /\ vp_raw = <<"S", "/", "a", "/">>
    /\ vp_pattern = <<"s", "/", "{", "x", "}", "/", "A">>

\* C7: validation gives the same result for id and id + "/", and the same
\* result when the letter case of the id or of the template is changed.
C7_SlashAndCaseInsensitive ==
    IsSome(vp_result) =>
        LET r == Unwrap(vp_result)
            V(raw, pattern) == validate_pattern(ResourceIdFrom(raw), pattern, vp_method)
        IN  /\ V(vp_raw \o <<"/">>, vp_pattern) = r
            /\ V(ToUpper(vp_raw), vp_pattern) = r
            /\ V(ToLower(vp_raw), vp_pattern) = r
            /\ V(vp_raw, ToUpper(vp_pattern)) = r
            /\ V(vp_raw, ToLower(vp_pattern)) = r

\* An id in mixed case with a trailing slash validates against a template
\* whose static segment is written in the other case.
C7_Witness ==
    /\ vp_result = Some("Ok")
    /\ vp_method = "get"
    /\ vp_raw = <<"S", "/", "a", "/">>
    /\ vp_pattern = <<"s", "/", "A">>

(***************************************************************************)
(* Claims about run (checked under Spec)                                   *)
(***************************************************************************)
Conditions == cmd_metadata.conditions
Ops == cmd_metadata.operations
Range(seq) == { seq[i] : i \in 1..Len(seq) }

\* --id was passed / the arguments are discrete
ById == IsSome(arg_matches.id)
Discrete == IsNone(arg_matches.id)

\* The id the user supplied, as typed: the --id value, or the "id" on stdin
SuppliedId ==
    IF Discrete THEN None
    ELSE IF Unwrap(arg_matches.id) = Dash THEN std_in.id
    ELSE arg_matches.id

\* match_condition has returned; select_operation_by_cond has returned;
\* invoke has run up to its error or its call of the transport
Matched == pc \notin {"idle", "match"} /\ result.what # "PanicOperator"
SelectActed == Matched /\ pc # "select"
InvokeActed ==
    /\ SelectActed
    /\ IsSome(selected)
    /\ pc \notin {"prepare", "invoke"}
    /\ result.what \notin {"ErrAuthoredBody", "PrintedCli", "PanicLoginRequired"}

NotFound == IsNone(selected) /\ result = [kind |-> "Err", what |-> "ErrSelect"]

\* C1: for a command document without conditions, selection (made with no
\* condition variable) succeeds iff there is exactly one operation, and then
\* returns it; with no operation or with several it reports NotFound.
C1_SelectWithoutConditions ==
    (IsNone(Conditions) /\ Matched) =>
        /\ IsNone(cmd_cond)
        /\ SelectActed =>
              IF Len(Ops) = 1 THEN selected = Some(1) ELSE NotFound

\* Two operations, no conditions: NotFound.
C1_Witness ==
    /\ IsNone(Conditions)
    /\ Len(Ops) = 2
    /\ NotFound
    /\ pc = "done"

\* C2 (as stated): for a command document that declares conditions, when no
\* condition evaluates true and no id is supplied, selection reports NotFound
\* and nothing is invoked, whatever the number of operations.
C2_AsStated ==
    ( /\ SelectActed
      /\ Discrete
      /\ IsSome(Conditions)
      /\ Len(Unwrap(Conditions)) >= 1
      /\ \A i \in 1..Len(Unwrap(Conditions)) :
            match_operator(Unwrap(Conditions)[i].operator, arg_matches) = "false" )
    => (NotFound /\ requests = <<>>)

\* The documents the data model allows: `when` tags only name declared
\* conditions, so a document without conditions tags no operation.
WhenTagsDeclared ==
    IsSome(Conditions) \/ \A i \in 1..Len(Ops) : IsNone(Ops[i].when)

RECURSIVE WellTyped(_)
WellTyped(node) ==
    CASE node.kind = "Arg" -> node.type_ = "hasValue"
      [] node.kind = "Operator" -> node.type_ = "not" /\ WellTyped(node.operators[1])
      [] node.kind = "Operators" ->
            /\ node.type_ \in {"and", "or"}
            /\ \A i \in 1..Len(node.operators) : WellTyped(node.operators[i])

\* The truth of a well-typed condition tree when the arguments in S are bound
RECURSIVE Holds(_, _)
Holds(node, S) ==
    CASE node.kind = "Arg" -> node.arg \in S
      [] node.kind = "Operator" -> ~Holds(node.operators[1], S)
      [] node.kind = "Operators" ->
            IF node.type_ = "and"
            THEN \A i \in 1..Len(node.operators) : Holds(node.operators[i], S)
            ELSE \E i \in 1..Len(node.operators) : Holds(node.operators[i], S)

\* C4: without an id, the condition variable is the var of the first
\* condition, in document order, that is true of the bound arguments, and
\* none when no condition is true.
C4_FirstTrueCondition ==
    ( /\ Matched
      /\ Discrete
      /\ IsSome(Conditions)
      /\ \A i \in 1..Len(Unwrap(Conditions)) : WellTyped(Unwrap(Conditions)[i].operator) )
    => LET conds == Unwrap(Conditions)
           true  == { i \in 1..Len(conds) :
                        Holds(conds[i].operator, DOMAIN arg_matches.args) }
       IN  cmd_cond = IF true = {} THEN None ELSE Some(conds[Min(true)].var)

\* Scenario C: [v1 = x and not y, v2 = x and y] with only x bound gives v1.
C4_Witness ==
    /\ pc = "select"
    /\ Conditions = Some(ListConditions)
    /\ Discrete
    /\ DOMAIN arg_matches.args = {"x"}
    /\ cmd_cond = Some("v1")

\* C5: with a condition variable, selection returns the first operation, in
\* document order, whose `when` list contains it, and reports NotFound when
\* no operation's list does (an operation without `when` has none).
C5_SelectByCondition ==
    (SelectActed /\ IsSome(cmd_cond)) =>
        LET hit == { i \in 1..Len(Ops) : Unwrap(cmd_cond) \in Range(WhenOf(Ops[i])) }
        IN  IF hit = {} THEN NotFound ELSE selected = Some(Min(hit))

\* v2 is the second tag of the second operation and no tag of the first.
C5_Witness ==
    /\ cmd_cond = Some("v2")
    /\ Len(Ops) = 2
    /\ Ops[1].when = Some(<<"v1">>)
    /\ Ops[2].when = Some(<<"v1", "v2">>)
    /\ selected = Some(2)

\* The text after the last slash of a template
AfterLastSlash(s) ==
    LET at == { i \in 1..Len(s) : s[i] = "/" }
    IN  IF at = {} THEN s ELSE SubSeq(s, Max(at) + 1, Len(s))

\* C8: in --id mode a request is sent only for an id that validates against
\* the selected operation's template, and its path is the id with its
\* trailing slashes stripped, followed for POST (and only for POST) by "/"
\* and the template's last segment.
C8_PathFromId ==
    (ById /\ Len(requests) > 0) =>
        LET http == Unwrap(SelectedOp.http)
            id   == TrimEndMatches(Unwrap(SuppliedId), "/")
        IN  /\ IsSome(SuppliedId)
            /\ Prescribed(Unwrap(SuppliedId), http.path, http.request.method,
                          StartsWithBrace) = "Ok"
            /\ requests[1].path =
                  IF http.request.method = "post"
                  THEN id \o <<"/">> \o AfterLastSlash(http.path)
                  ELSE id

\* POST /s/{x}/a invoked with --id /S/1/ requests /S/1/a.
C8_Witness ==
    /\ arg_matches.id = Some(IdS1)
    /\ Len(requests) = 1
    /\ requests[1].method = "post"
    /\ requests[1].path = <<"/", "S", "/", "1", "/", "a">>

\* The declared path parameters of the selected operation, and the unbound ones
Params == Unwrap(SelectedOp.http).request.path.params
Unbound == { i \in 1..Len(Params) : Params[i].arg \notin DOMAIN arg_matches.args }

\* s starts with t
StartsWith(s, t) == Len(s) >= Len(t) /\ SubSeq(s, 1, Len(t)) = t

\* The template with the placeholder of every bound declared parameter
\* replaced by the parameter's value
RECURSIVE Substituted(_)
Substituted(s) ==
    IF Len(s) = 0 THEN <<>>
    ELSE LET at == { i \in 1..Len(Params) :
                        /\ i \notin Unbound
                        /\ StartsWith(s, <<"{">> \o Params[i].name \o <<"}">>) }
             p  == Params[Min(at)]
         IN  IF at = {} THEN <<Head(s)>> \o Substituted(Tail(s))
             ELSE arg_matches.args[p.arg]
                  \o Substituted(SubSeq(s, Len(p.name) + 3, Len(s)))

\* C9, first half: the path of a request sent in discrete mode is the
\* template with every declared parameter's placeholder replaced by its value.
PlaceholdersReplaced ==
    (Discrete /\ Len(requests) > 0) =>
        /\ Unbound = {}
        /\ requests[1].path = Substituted(Unwrap(SelectedOp.http).path)

MissingRequired == result = [kind |-> "Err", what |-> "ErrMissingRequired"]

\* C9 (as stated): ... and if any declared required path parameter is
\* unbound, the build fails with the missing-required-parameter error and no
\* request is sent.
C9_AsStated ==
    /\ PlaceholdersReplaced
    /\ ( /\ Discrete
         /\ InvokeActed
         /\ IsSome(SelectedOp.http)
         /\ \E i \in Unbound : Params[i].required = Some(TRUE) )
       => (MissingRequired /\ requests = <<>>)

\* C9 (amended): ... and if any declared path parameter is unbound no request
\* is sent; the build fails with the missing-required-parameter error when the
\* first unbound parameter, in declaration order, is required.
C9_PathFromParameters ==
    /\ PlaceholdersReplaced
    /\ ( /\ Discrete
         /\ InvokeActed
         /\ IsSome(SelectedOp.http)
         /\ Unbound # {} )
       => /\ requests = <<>>
          /\ pc = "done"
          /\ Params[Min(Unbound)].required = Some(TRUE) => MissingRequired

\* GET /s/{x}/t/{y} with x = 1 and y = 2 requests /s/1/t/2.
C9_Witness ==
    /\ Discrete
    /\ Len(requests) = 1
    /\ Unwrap(SelectedOp.http).path = TemplateSXTY
    /\ requests[1].path = <<"/", "s", "/", "1", "/", "t", "/", "2">>

\* s contains t
Contains(s, t) == \E i \in 1..(Len(s) + 1) : StartsWith(SubSeq(s, i, Len(s)), t)

\* C10: in discrete mode, when a declared path parameter that is not required
\* is unbound, the invocation ends in failure without a request being sent;
\* no request sent in discrete mode has a declared parameter's placeholder
\* left in its path or fewer segments than the template.
C10_OptionalUnboundFailsFast ==
    /\ ( /\ Discrete
         /\ InvokeActed
         /\ IsSome(SelectedOp.http)
         /\ \E i \in Unbound : Params[i].required # Some(TRUE) )
       => /\ requests = <<>>
          /\ pc = "done"
          /\ result.kind \in {"Err", "Panic"}
    /\ (Discrete /\ Len(requests) > 0) =>
          /\ \A i \in 1..Len(Params) :
                ~Contains(requests[1].path, <<"{">> \o Params[i].name \o <<"}">>)
          /\ Len(Split(requests[1].path, "/"))
                = Len(Split(Unwrap(SelectedOp.http).path, "/"))

\* x is bound, the optional y is not: the invocation panics, nothing is sent.
C10_Witness ==
    /\ Discrete
    /\ InvokeActed
    /\ DOMAIN arg_matches.args = {"x"}
    /\ Len(Params) = 2
    /\ Params[1] = PathParam(<<"x">>, Some(TRUE))
    /\ Params[2] = PathParam(<<"y">>, Some(FALSE))
    /\ result = [kind |-> "Panic", what |-> "PanicOptional"]
    /\ requests = <<>>

(***************************************************************************)
(* Claims about the request and the response (checked under Spec)          *)
(***************************************************************************)
\* The operation's http, and the query the transport is handed: client.run
\* takes the api-version value and nothing else of query_pairs
Http == Unwrap(SelectedOp.http)
TransportQuery(request) == [k \in {"api-version"} |-> request.api_version]

\* C11 (as stated): every request handed to the transport carries each
\* constant query parameter the operation declares; api-version carries the
\* user's api-version when one is bound and the declared default otherwise.
C11_AsStated ==
    Len(requests) > 0 =>
        LET consts == Http.request.query.consts
            query  == TransportQuery(requests[1])
        IN  \A i \in 1..Len(consts) :
               /\ consts[i].name \in DOMAIN query
               /\ query[consts[i].name] =
                     IF consts[i].name = "api-version"
                           /\ "api-version" \in DOMAIN arg_matches.args
                     THEN arg_matches.args["api-version"]
                     ELSE consts[i].default.value

\* C12 (as stated): the request handed to the transport includes every
\* declared dynamic query parameter whose argument is bound, with the bound
\* value, and none whose argument is unbound.
C12_AsStated ==
    (Len(requests) > 0 /\ IsSome(Http.request.query.params)) =>
        LET params == Unwrap(Http.request.query.params)
            query  == TransportQuery(requests[1])
        IN  \A i \in 1..Len(params) :
               IF params[i].arg \in DOMAIN arg_matches.args
               THEN /\ params[i].name \in DOMAIN query
                    /\ query[params[i].name] = arg_matches.args[params[i].arg]
               ELSE params[i].name \notin DOMAIN query

\* C13 (as stated): a request carries a body only when the operation's
\* method is PUT, PATCH or POST; with any other method it carries none, even
\* when the metadata declares a body schema.
C13_AsStated ==
    (Len(requests) > 0 /\ Http.request.method \notin {"put", "patch", "post"}) =>
        IsNone(requests[1].body)

\* Some declared response's status-code set contains the received code
StatusDeclared ==
    \E i \in 1..Len(Http.responses) :
        /\ Http.responses[i].status_code # None
        /\ Unwrap(received).status_code \in Http.responses[i].status_code[1]

Succeeded == result = [kind |-> "Ok", what |-> "ResponseBody"]
ErrorResponse == result = [kind |-> "Err", what |-> "ErrResponse"]

\* C19 (as stated): the response body is the success payload iff some
\* declared response's status-code set contains the status code, whatever
\* the isError flags; otherwise the result is the error response.
C19_AsStated ==
    IsSome(received) =>
        /\ Succeeded <=> StatusDeclared
        /\ ~StatusDeclared => ErrorResponse

\* C19 (amended): the response body is the success payload iff some declared
\* response's status-code set contains the status code and the body is valid
\* UTF-8, whatever the isError flags; a declared code with a body that is
\* not UTF-8 is a decoding error, an undeclared code the error response.
C19_Route ==
    IsSome(received) =>
        /\ Succeeded <=> (StatusDeclared /\ Unwrap(received).utf8)
        /\ (StatusDeclared /\ ~Unwrap(received).utf8)
              => result = [kind |-> "Err", what |-> "ErrUtf8"]
        /\ ~StatusDeclared => ErrorResponse

\* 404 is declared by an isError entry: the call succeeds.
C19_Witness ==
    /\ IsSome(received)
    /\ Unwrap(received) = [status_code |-> 404, utf8 |-> TRUE]
    /\ Http.responses = ErrorDeclared
    /\ Succeeded

\* C20: on well-typed condition trees match_operator is total and has the
\* boolean semantics (hasValue: the argument is bound; not: negation; and:
\* all children; or: some child), and evaluating the conditions changes
\* neither the bound arguments nor the command document.
C20_EvaluateBoolean ==
    /\ [](IsSome(Conditions) =>
            \A i \in 1..Len(Unwrap(Conditions)) :
                LET tree == Unwrap(Conditions)[i].operator
                IN  WellTyped(tree) =>
                       match_operator(tree, arg_matches) =
                          IF Holds(tree, DOMAIN arg_matches.args) THEN "true" ELSE "false")
    /\ [][pc = "match" =>
             (arg_matches' = arg_matches /\ cmd_metadata' = cmd_metadata)]_vars

\* With nothing bound, "not x or y" is true.
C20_Witness ==
    /\ pc = "select"
    /\ Discrete
    /\ Conditions = Some(<<[var |-> "v2", operator |-> NotXOrY]>>)
    /\ DOMAIN arg_matches.args = {}
    /\ cmd_cond = Some("v2")

\* The body cannot be built: none is authored and, in the declared schema, a
\* property has no name or no arg, or the text bound to a property that is
\* not a string is not JSON (the schemas of the model are flat)
BodyUnbuildable ==
    /\ IsNone(authored)
    /\ IsSome(Http.request.body)
    /\ IsSome(Unwrap(Http.request.body).json.schema)
    /\ LET schema == Unwrap(Unwrap(Http.request.body).json.schema)
       IN  \/ IsNone(schema.props)
           \/ \E i \in 1..Len(Unwrap(schema.props)) :
                 LET prop == Unwrap(schema.props)[i]
                 IN  \/ IsNone(prop.name)
                     \/ IsNone(prop.arg)
                     \/ /\ prop.type_ # "string"
                        /\ Unwrap(prop.arg) \in DOMAIN arg_matches.args
                        /\ arg_matches.args[Unwrap(prop.arg)] \notin
                               {"true", "123", "\"s\"", "[1]", "null", "{\"k\":1}"}

\* C25: one invocation calls the transport at most once and never again: the
\* call is made by invoke, when no call has been made, only for an operation
\* with http whose path (every declared parameter bound, or the supplied id
\* valid for the template), query (an api-version) and body were built; an
\* operation without http ends in the http-information error with no call;
\* a transport error leaves the one call made.
C25_SingleCall ==
    /\ [] ( /\ Len(requests) <= 1
            /\ Len(requests) = 1 =>
                 /\ IsSome(selected)
                 /\ IsSome(SelectedOp.http)
                 /\ Discrete => Unbound = {}
                 /\ ById => /\ IsSome(SuppliedId)
                            /\ validate_pattern(ResourceIdFrom(Unwrap(SuppliedId)),
                                                Http.path, Http.request.method) = "Ok"
                 /\ \E i \in 1..Len(Http.request.query.consts) :
                        Http.request.query.consts[i].name = "api-version"
                 /\ ~BodyUnbuildable
            /\ (InvokeActed /\ IsNone(SelectedOp.http)) =>
                 /\ requests = <<>>
                 /\ result = [kind |-> "Err", what |-> "HttpInfoNotFound"]
            /\ result.what = "ErrTransport" => (Len(requests) = 1 /\ pc = "done") )
    /\ [][requests' # requests =>
            /\ pc = "invoke"
            /\ requests = <<>>
            /\ Len(requests') = 1
            /\ pc' = "await"]_vars

\* The transport failed on the one call made, and the run ended.
C25_Witness ==
    /\ pc = "done"
    /\ result = [kind |-> "Err", what |-> "ErrTransport"]
    /\ Len(requests) = 1

\* The operations with an http whose template the supplied id fits
IdPathMatched ==
    { i \in 1..Len(Ops) :
        /\ IsSome(Ops[i].http)
        /\ validate_pattern(ResourceIdFrom(Unwrap(SuppliedId)), Unwrap(Ops[i].http).path,
                            Unwrap(Ops[i].http).request.method) = "Ok" }

\* C29 (as stated): with an id and declared conditions, the operation
\* selected for the derived condition variable is the first one whose path
\* matched the id, and the validation of the id against the selected
\* operation's template at request-build time never fails.
C29_AsStated ==
    ( /\ ById
      /\ IsSome(Conditions)
      /\ IsSome(SuppliedId)
      /\ IsSome(cmd_cond)
      /\ IsSome(selected) )
    => /\ IdPathMatched # {}
       /\ Unwrap(selected) = Min(IdPathMatched)
       /\ result.what \notin {"ErrUnexpectedLength", "ErrUnexpectedSegment", "HttpInfoNotFound"}

\* The hasValue/arg leaves of a condition tree
RECURSIVE LeavesOf(_)
LeavesOf(node) ==
    IF node.kind = "Arg" THEN {node}
    ELSE UNION { LeavesOf(node.operators[i]) : i \in 1..Len(node.operators) }

\* The matches with the argument a bound as well
WithArg(matches, a) ==
    [matches EXCEPT !.args =
        [k \in DOMAIN matches.args \cup {a} |->
            IF k \in DOMAIN matches.args THEN matches.args[k] ELSE ArgValue[a]]]

\* C21: for a fixed tree, binding one more argument never turns a hasValue
\* leaf that is true into one that is false (it can only turn false leaves
\* true).
C21_LeavesMonotonic ==
    IsSome(Conditions) =>
        \A i \in 1..Len(Unwrap(Conditions)) :
            \A leaf \in LeavesOf(Unwrap(Conditions)[i].operator) :
                \A a \in PathArgs :
                    (leaf.type_ = "hasValue" /\ match_operator(leaf, arg_matches) = "true")
                        => match_operator(leaf, WithArg(arg_matches, a)) = "true"

\* hasValue(x) was evaluated false with only y bound; binding x makes it true.
C21_Witness ==
    /\ pc = "select"
    /\ Discrete
    /\ Conditions = Some(<<[var |-> "v1", operator |-> HasValue("x")]>>)
    /\ DOMAIN arg_matches.args = {"y"}
    /\ cmd_cond = None
    /\ match_operator(HasValue("x"), WithArg(arg_matches, "x")) = "true"

\* The tree has a node that does not fit: a type tag that does not fit the
\* node's shape, or an and/or with a single child
RECURSIVE HasMisfit(_)
HasMisfit(node) ==
    \/ node.kind = "Arg" /\ node.type_ # "hasValue"
    \/ node.kind = "Operator" /\ node.type_ # "not"
    \/ node.kind = "Operators" /\ node.type_ \notin {"and", "or"}
    \/ node.kind = "Operators" /\ Len(node.operators) = 1
    \/ \E i \in 1..Len(node.operators) : HasMisfit(node.operators[i])

\* C22 (as stated): evaluating a condition tree that has a malformed node
\* never returns a boolean: the invocation is aborted with the fatal fault.
\* (Without an id the first condition is always evaluated.)
C22_AsStated ==
    ( /\ pc # "match"
      /\ Discrete
      /\ IsSome(Conditions)
      /\ Len(Unwrap(Conditions)) >= 1
      /\ HasMisfit(Unwrap(Conditions)[1].operator) )
    => result = [kind |-> "Panic", what |-> "PanicOperator"]

(***************************************************************************)
(* Inputs of the BodyBuilder specification                                 *)
(***************************************************************************)
MaxProps == 2
MaxPath == 2

\* The names a looked-up path is made of: the names of the pool's nodes
PathNames == {"a", "b", "n"}

\* The type tags: boolean, an integer*, string, an array*, and a tag outside
\* the families the builder knows
ScalarTypes == {"boolean", "integer32", "string", "array", "custom"}

\* The body arguments, the property each one feeds, and the texts bound
BodyArgs == {"p", "q"}
KeyOf == [a \in BodyArgs |-> IF a = "p" THEN "a" ELSE "b"]
BodyTexts ==
    [a \in BodyArgs |->
        IF a = "p" THEN {"true", "123", "null", "abc", "\"s\""}
        ELSE {"[1]", "{\"k\":1}", "123", "null", "abc"}]
BodyMatches ==
    { [id |-> None, args |-> f] :
        f \in UNION { { g \in [S -> BodyTexts["p"] \cup BodyTexts["q"]] :
                            \A a \in S : g[a] \in BodyTexts[a] } :
                      S \in SUBSET BodyArgs } }

Scalars == { Node(t, Some(KeyOf[a]), Some(a), None, None) : t \in ScalarTypes, a \in BodyArgs }
BoolA == Node("boolean", Some("a"), Some("p"), None, None)

\* Children beside the scalars: a required one; one without arg and one
\* without name; an object with both arg and props; objects with props only
\* (one child, no child); an object with neither
ChildPool ==
    Scalars \cup
    { Node("boolean", Some("a"), Some("p"), Some(TRUE), None),
      Node("integer32", Some("a"), None, None, None),
      Node("string", None, Some("p"), None, None),
      Node("object", Some("b"), Some("q"), None, Some(<<BoolA>>)),
      Node("object", Some("n"), None, None, Some(<<BoolA>>)),
      Node("object", Some("n"), None, None, Some(<<>>)),
      Node("object", Some("n"), None, None, None) }

SchemaPool ==
    ChildPool \cup
    { Node("object", None, arg, None, Some(props)) :
        arg \in {None, Some("q")}, props \in SeqsFrom0(ChildPool, MaxProps) }

(***************************************************************************)
(* Specification of the BodyBuilder as functions of schema and arguments   *)
(***************************************************************************)
InitBuild ==
    /\ bb_schema \in SchemaPool
    /\ bb_matches \in BodyMatches
    /\ bb_value = None
    /\ bb_body = None
    /\ bb_paths = None
    /\ bb_found = None
    /\ RunIdle
    /\ VpIdle
    /\ ExtIdle("build")

\* The lookups of schema_by_path: every schema, every path of up to
\* MaxPath names, every body argument bound
InitLookup ==
    /\ bb_schema \in SchemaPool
    /\ bb_matches = [id |-> None, args |-> [a \in BodyArgs |-> IF a = "p" THEN "true" ELSE "[1]"]]
    /\ bb_value = None
    /\ bb_body = None
    /\ bb_paths \in { Some(path) : path \in SeqsFrom0(PathNames, MaxPath) }
    /\ bb_found = None
    /\ RunIdle
    /\ VpIdle
    /\ ExtIdle("build")

\* operation.schema_by_path(&paths), the operation's body schema being bb_schema
SchemaByPathStep ==
    /\ IsSome(bb_paths)
    /\ IsNone(bb_found)
    /\ bb_found' = Some(schema_by_path(Some(bb_schema), Unwrap(bb_paths)))
    /\ UNCHANGED <<bb_schema, bb_matches, bb_value, bb_body, bb_paths, run_vars, vp_vars, ext_vars>>

\* BodyBuilder(&matches).build_value(&schema)
BuildValueStep ==
    /\ IsNone(bb_value)
    /\ bb_value' = Some(build_value(bb_schema, bb_matches))
    /\ UNCHANGED <<bb_schema, bb_matches, bb_body, bb_paths, bb_found, run_vars, vp_vars, ext_vars>>

\* BodyBuilder(&matches).build_body(&schema)
BuildBodyStep ==
    /\ IsSome(bb_value)
    /\ IsNone(bb_body)
    /\ bb_body' = Some(build_body(bb_schema, bb_matches))
    /\ UNCHANGED <<bb_schema, bb_matches, bb_value, bb_paths, bb_found, run_vars, vp_vars, ext_vars>>

NextBuild == BuildValueStep \/ BuildBodyStep \/ SchemaByPathStep

SpecBuild == (InitBuild \/ InitLookup) /\ [][NextBuild]_vars

(***************************************************************************)
(* Claims about the BodyBuilder (checked under SpecBuild)                  *)
(***************************************************************************)
\* The node's argument is bound; the text bound to it
IsBound(node) == node.arg # None /\ node.arg[1] \in DOMAIN bb_matches.args
TextOf(node) == bb_matches.args[node.arg[1]]

\* The text is JSON
Parses(text) == from_str(text) # None

\* The node takes its value from its props: an object without arg
FromProps(node) == node.type_ = "object" /\ node.arg = None /\ node.props # None

\* Nothing but requiredness is wrong with the node: it has the arg or the
\* props its type needs, its children are named, and the texts bound to it
\* and to its children are JSON where JSON is read
RECURSIVE Sound(_)
Sound(node) ==
    IF FromProps(node)
    THEN \A i \in 1..Len(node.props[1]) :
            node.props[1][i].name # None /\ Sound(node.props[1][i])
    ELSE /\ node.arg # None
         /\ (IsBound(node) /\ node.type_ # "string") => Parses(TextOf(node))

\* The child yields a value, as the claim has it: its argument is bound, or,
\* for a nested object with props, one of its children yields a value
RECURSIVE YieldsStated(_)
YieldsStated(node) ==
    IF FromProps(node)
    THEN \E i \in 1..Len(node.props[1]) : YieldsStated(node.props[1][i])
    ELSE IsBound(node)

\* The same, except that a child whose type is neither object nor string
\* and whose text is the JSON null yields nothing
RECURSIVE Yields(_)
Yields(node) ==
    IF FromProps(node)
    THEN \E i \in 1..Len(node.props[1]) : Yields(node.props[1][i])
    ELSE /\ IsBound(node)
         /\ node.type_ \in {"object", "string"} \/ TextOf(node) # "null"

\* The keys of a JSON object
Keys(value) == { e[1][1] : e \in { x \in value : Len(x[1]) > 0 } }

\* What the claim says of an object built from props, given which children
\* yield a value: the build succeeds unless a child is unsound (a required
\* child without a value is no error); the keys are those of the children
\* that yield a value; a nested object without any key is no value
BuiltFromProps(Y(_)) ==
    /\ (IsSome(bb_body) /\ bb_schema.props # None) =>
          LET props == bb_schema.props[1]
              r     == bb_body[1]
          IN  /\ r.ok <=> \A i \in 1..Len(props) : props[i].name # None /\ Sound(props[i])
              /\ r.ok => /\ r.val # None
                         /\ Keys(r.val[1]) =
                               { props[i].name[1] : i \in { j \in 1..Len(props) : Y(props[j]) } }
    /\ (IsSome(bb_value) /\ FromProps(bb_schema)) =>
          LET props == bb_schema.props[1]
              r     == bb_value[1]
          IN  /\ r.ok <=> Sound(bb_schema)
              /\ r.ok => /\ r.val # None <=> \E i \in 1..Len(props) : Y(props[i])
                         /\ r.val # None =>
                               Keys(r.val[1]) =
                                  { props[i].name[1] : i \in { j \in 1..Len(props) : Y(props[j]) } }

\* C14 (as stated): an object built from props has the key of a named child
\* iff the child yields a value; a scalar or arg-bound child yields a value
\* iff its argument is bound, a nested props-object iff one of its children
\* does; requiredness is never checked.
C14_AsStated == BuiltFromProps(YieldsStated)

\* C14 (amended): as C14, except that a bound child whose type is neither
\* object nor string and whose text is the JSON null yields no value.
C14_ObjectFromProps == BuiltFromProps(Yields)

\* A nested object whose only child is unbound, and an unbound required
\* child: both keys are omitted and the body is {}.
C14_Witness ==
    /\ bb_schema.props =
          Some(<< Node("object", Some("n"), None, None, Some(<<BoolA>>)),
                  Node("boolean", Some("a"), Some("p"), Some(TRUE), None) >>)
    /\ DOMAIN bb_matches.args = {}
    /\ bb_body = Some([ok |-> TRUE, val |-> Some({ << <<>>, "object", "{}" >> })])

\* C15: for an object node with arg, the bound text parsed as JSON is the
\* whole value, whatever props the node declares (no value when the argument
\* is unbound).
C15_ObjectFromArg ==
    (IsSome(bb_value) /\ bb_schema.type_ = "object" /\ bb_schema.arg # None) =>
        LET r == bb_value[1]
        IN  IF ~IsBound(bb_schema) THEN r = [ok |-> TRUE, val |-> None]
            ELSE Parses(TextOf(bb_schema)) =>
                    r = [ok |-> TRUE, val |-> from_str(TextOf(bb_schema))]

\* The node declares the property a, fed by p = true, and its own argument
\* is bound to {"k":1}: the value is {"k":1}.
C15_Witness ==
    /\ bb_schema = Node("object", Some("b"), Some("q"), None, Some(<<BoolA>>))
    /\ DOMAIN bb_matches.args = {"p", "q"}
    /\ bb_matches.args["p"] = "true"
    /\ bb_matches.args["q"] = "{\"k\":1}"
    /\ bb_value = Some([ok |-> TRUE, val |-> Some({ << <<"k">>, "number", "1" >> })])

\* C16 (as stated): for a node of type array* or string the value is the
\* bound text parsed as JSON.
C16_AsStated ==
    ( /\ IsSome(bb_value)
      /\ bb_schema.type_ \in {"array", "string"}
      /\ IsBound(bb_schema)
      /\ Parses(TextOf(bb_schema)) )
    => bb_value[1] = [ok |-> TRUE, val |-> from_str(TextOf(bb_schema))]

\* C16 (amended): for a node of type array* the value is the bound text
\* parsed as JSON (no value when the text is null, an error when it is not
\* JSON); for a node of type string the value is the JSON string holding
\* the bound text as it is.
C16_ArrayAndString ==
    (IsSome(bb_value) /\ IsBound(bb_schema)) =>
        LET r    == bb_value[1]
            text == TextOf(bb_schema)
        IN  /\ bb_schema.type_ = "array" =>
                  IF ~Parses(text) THEN ~r.ok
                  ELSE IF text = "null" THEN r = [ok |-> TRUE, val |-> None]
                  ELSE r = [ok |-> TRUE, val |-> from_str(text)]
            /\ bb_schema.type_ = "string" =>
                  r = [ok |-> TRUE, val |-> Some({ << <<>>, "string", text >> })]

\* A string node bound to the five characters "s" (quotes included) has
\* those five characters as its value.
C16_Witness ==
    /\ bb_schema = Node("string", Some("a"), Some("p"), None, None)
    /\ IsBound(bb_schema)
    /\ TextOf(bb_schema) = "\"s\""
    /\ bb_value = Some([ok |-> TRUE, val |-> Some({ << <<>>, "string", "\"s\"" >> })])

\* The props [boolean a from p, integer32 b from q]
BoolAndInt ==
    Some(<< BoolA, Node("integer32", Some("b"), Some("q"), None, None) >>)

\* C17: an integer* node bound to an integer has that JSON number as its
\* value, a boolean node bound to a boolean that JSON boolean; the props
\* [boolean, integer32] bound to true and 123 build {"a": true, "b": 123}.
C17_IntegerAndBoolean ==
    /\ (IsSome(bb_value) /\ IsBound(bb_schema)) =>
          /\ (bb_schema.type_ = "integer32" /\ TextOf(bb_schema) = "123") =>
                bb_value[1] = [ok |-> TRUE, val |-> Some({ << <<>>, "number", "123" >> })]
          /\ (bb_schema.type_ = "boolean" /\ TextOf(bb_schema) = "true") =>
                bb_value[1] = [ok |-> TRUE, val |-> Some({ << <<>>, "bool", "true" >> })]
    /\ ( /\ IsSome(bb_body)
         /\ bb_schema.props = BoolAndInt
         /\ DOMAIN bb_matches.args = {"p", "q"}
         /\ bb_matches.args["p"] = "true"
         /\ bb_matches.args["q"] = "123" )
       => bb_body[1] = [ok |-> TRUE,
                        val |-> Some({ << <<"a">>, "bool", "true" >>,
                                       << <<"b">>, "number", "123" >> })]

\* The example's body has been built.
C17_Witness ==
    /\ IsSome(bb_body)
    /\ bb_schema = Node("object", None, None, None, BoolAndInt)
    /\ DOMAIN bb_matches.args = {"p", "q"}
    /\ bb_matches.args["p"] = "true"
    /\ bb_matches.args["q"] = "123"
    /\ Keys(bb_body[1].val[1]) = {"a", "b"}

\* C18 (as stated): for a node whose type tag is outside the known families
\* building the value never fails: the bound text is parsed as JSON, and a
\* text that is not JSON becomes the JSON string holding it.
C18_AsStated ==
    (IsSome(bb_value) /\ bb_schema.type_ = "custom" /\ IsBound(bb_schema)) =>
        LET r == bb_value[1]
        IN  /\ r.ok
            /\ ~Parses(TextOf(bb_schema)) =>
                  r.val = Some({ << <<>>, "string", TextOf(bb_schema) >> })

(***************************************************************************)
(* Claims about schema_by_path (checked under SpecBuild)                   *)
(***************************************************************************)
\* The path looked up, its prefix of k names, and what the lookup of that
\* prefix answers
LookedUp == Unwrap(bb_paths)
Upto(k) == SubSeq(LookedUp, 1, k)
At(k) == IF k = Len(LookedUp) THEN Unwrap(bb_found) ELSE schema_by_path(Some(bb_schema), Upto(k))

\* The children of the node that carry the name, in the order of props
Named(node, name) ==
    IF IsNone(node.props) THEN <<>>
    ELSE SelectSeq(Unwrap(node.props), LAMBDA child : child.name = Some(name))

\* The builder reaches the path through props: below the body schema, every
\* node above the path's last one is an object without arg
ViaProps == \A k \in 1..(Len(LookedUp) - 1) : IsSome(At(k)) /\ FromProps(Unwrap(At(k)))

\* Every name of the path is carried by one child only
OneEach ==
    \A k \in 1..Len(LookedUp) :
        IsSome(At(k - 1)) => Len(Named(Unwrap(At(k - 1)), LookedUp[k])) <= 1

\* The value v at the path
Under(path, v) == { << path \o e[1], e[2], e[3] >> : e \in v }

\* C26 (as stated): schema_by_path returns none for a path the builder
\* cannot populate from props.
C26_AsStated ==
    (IsSome(bb_found) /\ ~ViaProps) => Unwrap(bb_found) = None

\* C26 (amended): schema_by_path answers the body schema for the empty path
\* and otherwise follows, name by name, the first child in props carrying
\* the name, whatever the node's type and whether or not it has arg; it
\* answers none exactly when a name has no such child.  Where the builder
\* reaches the path through props and each name is carried by one child only,
\* the node answered is the one whose value the built body has at the path.
C26_SchemaByPath ==
    IsSome(bb_found) =>
        /\ LookedUp = <<>> => Unwrap(bb_found) = Some(bb_schema)
        /\ \A k \in 1..Len(LookedUp) :
              IF IsNone(At(k - 1)) THEN At(k) = None
              ELSE LET named == Named(Unwrap(At(k - 1)), LookedUp[k])
                   IN  IF named = <<>> THEN At(k) = None ELSE At(k) = Some(named[1])
        /\ ( /\ IsSome(Unwrap(bb_found))
             /\ ViaProps
             /\ OneEach
             /\ build_body(bb_schema, bb_matches).ok )
           => LET v == build_value(Unwrap(Unwrap(bb_found)), bb_matches)
                  body == Unwrap(build_body(bb_schema, bb_matches).val)
              IN  LookedUp # <<>> =>
                    /\ v.ok
                    /\ IsSome(v.val) => Under(LookedUp, Unwrap(v.val)) \subseteq body
                    /\ IsNone(v.val) =>
                          ~\E e \in body : Len(e[1]) >= Len(LookedUp)
                                            /\ SubSeq(e[1], 1, Len(LookedUp)) = LookedUp

\* The lookup of n.a answered the boolean child, whose value the body built
\* from the same schema has at n.a.
C26_Witness ==
    /\ bb_paths = Some(<<"n", "a">>)
    /\ bb_found = Some(Some(BoolA))
    /\ IsSome(bb_body)
    /\ Unwrap(bb_body).ok
    /\ << <<"n", "a">>, "bool", "true" >> \in Unwrap(Unwrap(bb_body).val)

(***************************************************************************)
(* metadata_index.rs: Index::locate_command_file                           *)
(*   CommandGroup = [command_groups : Option(name -> CommandGroup),        *)
(*                   commands : Option(name -> [versions : Seq])]          *)
(*   names, versions and the file name are character strings               *)
(*   Result<String> is [kind, what, text]: the file name when Ok, the      *)
(*   argument or version the message names when Err                        *)
(***************************************************************************)
\* Mutant of child_group: a name that is also a command is not a group
child_group_UnlessCommand(cg, arg) ==
    IF IsSome(cg.command_groups) /\ arg \in DOMAIN Unwrap(cg.command_groups)
       /\ ~(IsSome(cg.commands) /\ arg \in DOMAIN Unwrap(cg.commands))
    THEN Some(Unwrap(cg.command_groups)[arg])
    ELSE None

\* cg.command_groups.as_ref().and_then(|cg| cg.get(arg).cloned())
child_group(cg, arg) ==
    IF IsSome(cg.command_groups) /\ arg \in DOMAIN Unwrap(cg.command_groups)
    THEN Some(Unwrap(cg.command_groups)[arg])
    ELSE None

\* The bytes of the characters versions are made of
Byte == [c \in {"0", "1", "2", "9"} |->
            CASE c = "0" -> 48 [] c = "1" -> 49 [] c = "2" -> 50 [] c = "9" -> 57]

\* Mutant of StrLeq: the shorter string is the smaller one
RECURSIVE StrLeq_ShorterFirst(_, _)
StrLeq_ShorterFirst(a, b) ==
    IF Len(a) # Len(b) THEN Len(a) < Len(b)
    ELSE IF Len(a) = 0 THEN TRUE
    ELSE IF Byte[Head(a)] # Byte[Head(b)] THEN Byte[Head(a)] < Byte[Head(b)]
    ELSE StrLeq_ShorterFirst(Tail(a), Tail(b))

\* Ord for String (a <= b), which Iterator::max uses: byte by byte
RECURSIVE StrLeq(_, _)
StrLeq(a, b) ==
    IF Len(a) = 0 THEN TRUE
    ELSE IF Len(b) = 0 THEN FALSE
    ELSE IF Byte[Head(a)] # Byte[Head(b)] THEN Byte[Head(a)] < Byte[Head(b)]
    ELSE StrLeq(Tail(a), Tail(b))

LocateErr(what, text) == [kind |-> "Err", what |-> what, text |-> text]

\* The while loop of locate_command_file, from the group cg with args left
RECURSIVE Walk(_, _, _, _)
Walk(cg, args, parts, api_version) ==
    IF Len(args) = 0 THEN LocateErr("NotACommand", <<>>)
    ELSE
    LET arg   == Head(args)
        group == child_group(cg, arg)
    IN  IF IsSome(group)
        THEN Walk(Unwrap(group), Tail(args), Append(parts, arg), api_version)
        ELSE IF IsSome(cg.commands) /\ arg \in DOMAIN Unwrap(cg.commands)
        THEN LET versions == Unwrap(cg.commands)[arg].versions
                 found == { i \in 1..Len(versions) : Some(versions[i]) = api_version }
                 max   == { i \in 1..Len(versions) :
                              \A j \in 1..Len(versions) : StrLeq(versions[j], versions[i]) }
                 ver   == IF IsSome(api_version) THEN versions[Min(found)]
                          ELSE versions[Max(max)]
             IN  IF Len(args) > 1 THEN LocateErr("UnknownArgument", args[2])
                 ELSE IF IsSome(api_version) /\ found = {}
                 THEN LocateErr("VersionNotAvailable", Unwrap(api_version))
                 ELSE IF IsNone(api_version) /\ Len(versions) = 0
                 THEN LocateErr("NoVersionDefined", <<>>)
                 ELSE [kind |-> "Ok", what |-> "",
                       text |-> Join(Append(Append(parts, arg), ver), "_")
                                \o <<".", "j", "s", "o", "n">>]
        ELSE LocateErr("UnknownArgument", arg)

\* Index::locate_command_file; input.is_empty() is that there are no
\* positional arguments
locate_command_file(command_groups, api_version, pos_args) ==
    IF Len(pos_args) = 0 THEN LocateErr("EmptyInput", <<>>)
    ELSE Walk([command_groups |-> Some(command_groups), commands |-> None],
              Tail(pos_args), <<Head(pos_args)>>, api_version)

(***************************************************************************)
(* Specification of locate_command_file as a function of its inputs        *)
(***************************************************************************)
MaxSegs == 4

\* Lists of versions; "1" < "10" < "9" as strings
VersionLists ==
    { <<>>, << <<"9">> >>, << <<"1", "0">>, <<"9">> >>, << <<"9">>, <<"1", "0">> >>,
      << <<"1">>, <<"1", "0">> >> }

\* Names of groups and commands, and a name the index does not have
SegNames == { <<"g">>, <<"h">>, <<"c">>, <<"z">> }

\* The index of a service: the group g, with the group h (command c) and
\* the commands c and h; and an index whose group g is empty
IndexPool ==
    { [n \in {<<"g">>} |->
          [command_groups |->
                Some([m \in {<<"h">>} |->
                        [command_groups |-> None,
                         commands |-> Some([k \in {<<"c">>} |-> [versions |-> vs]])]]),
           commands |-> Some([k \in {<<"c">>, <<"h">>} |-> [versions |-> vs]])]] :
      vs \in VersionLists }
    \cup { [n \in {<<"g">>} |-> [command_groups |-> None, commands |-> None]] }

InitLocate ==
    /\ lc_index \in IndexPool
    /\ lc_version \in {None, Some(<<"9">>), Some(<<"1", "0">>), Some(<<"2">>)}
    /\ lc_input \in SeqsFrom0(SegNames, MaxSegs)
    /\ lc_result = None
    /\ RunIdle
    /\ VpIdle
    /\ BbIdle
    /\ ExtIdle("locate")

\* index.locate_command_file(api_version, &input)
LocateStep ==
    /\ IsNone(lc_result)
    /\ lc_result' = Some(locate_command_file(lc_index, lc_version, lc_input))
    /\ UNCHANGED <<lc_index, lc_version, lc_input, run_vars, vp_vars, bb_vars, es_vars, cr_vars, bk_vars>>

SpecLocate == InitLocate /\ [][LocateStep]_vars

(***************************************************************************)
(* Claims about locate_command_file (checked under SpecLocate)             *)
(***************************************************************************)
Located == Unwrap(lc_result)
RootGroup == [command_groups |-> Some(lc_index), commands |-> None]
GroupsOf(cg) == IF IsSome(cg.command_groups) THEN DOMAIN Unwrap(cg.command_groups) ELSE {}
CommandsOf(cg) == IF IsSome(cg.commands) THEN DOMAIN Unwrap(cg.commands) ELSE {}

\* The group reached once the first k segments are read, as Option: the
\* root after the service segment, then the child group each segment names
RECURSIVE GroupAt(_)
GroupAt(k) ==
    IF k = 1 THEN Some(RootGroup)
    ELSE LET before == GroupAt(k - 1)
         IN  IF IsSome(before) /\ lc_input[k] \in GroupsOf(Unwrap(before))
             THEN Some(Unwrap(Unwrap(before).command_groups)[lc_input[k]])
             ELSE None

\* The first segment that names no child group of the group reached, if any
Stops == { k \in 2..Len(lc_input) : IsNone(GroupAt(k)) }
Stop == Min(Stops)

\* The last segment is a command of the group reached, and its versions
AtLeaf ==
    /\ Stops = {Len(lc_input)}
    /\ lc_input[Len(lc_input)] \in CommandsOf(Unwrap(GroupAt(Len(lc_input) - 1)))
LeafVersions ==
    Unwrap(Unwrap(GroupAt(Len(lc_input) - 1)).commands)[lc_input[Len(lc_input)]].versions

\* a is before b in the lexicographic order of strings, or equal to it
LexLeq(a, b) ==
    \/ Len(a) <= Len(b) /\ SubSeq(b, 1, Len(a)) = a
    \/ \E i \in 1..Min({Len(a), Len(b)}) :
          /\ SubSeq(a, 1, i - 1) = SubSeq(b, 1, i - 1)
          /\ Byte[a[i]] < Byte[b[i]]

\* The document identifier: the segments and the version joined by "_",
\* with the extension
Identifier(version) ==
    Join(Append(lc_input, version), "_") \o <<".", "j", "s", "o", "n">>

\* C23: for the located leaf command, a requested version that is one of
\* the leaf's versions is the resolved one and a requested version that is
\* not makes Locate fail with the not-available error; with no version
\* requested the lexicographically greatest of the leaf's versions is the
\* resolved one; the identifier returned is the positional segments followed
\* by the resolved version.
C23_VersionResolved ==
    (IsSome(lc_result) /\ Len(lc_input) >= 2 /\ AtLeaf) =>
        LET versions == { LeafVersions[i] : i \in 1..Len(LeafVersions) }
        IN  /\ (IsSome(lc_version) /\ Unwrap(lc_version) \in versions)
                 => Located = [kind |-> "Ok", what |-> "",
                               text |-> Identifier(Unwrap(lc_version))]
            /\ (IsSome(lc_version) /\ Unwrap(lc_version) \notin versions)
                 => Located = LocateErr("VersionNotAvailable", Unwrap(lc_version))
            /\ (IsNone(lc_version) /\ versions # {})
                 => \E v \in versions :
                       /\ \A w \in versions : LexLeq(w, v)
                       /\ Located = [kind |-> "Ok", what |-> "", text |-> Identifier(v)]

\* Of the versions 10 and 9 the latter is resolved: z_g_c_9.json.
C23_Witness ==
    /\ lc_input = << <<"z">>, <<"g">>, <<"c">> >>
    /\ lc_version = None
    /\ lc_index[<<"g">>].commands = Some([k \in {<<"c">>, <<"h">>} |-> [versions |-> << <<"9">>, <<"1", "0">> >>]])
    /\ lc_result = Some([kind |-> "Ok", what |-> "",
                         text |-> <<"z", "_", "g", "_", "c", "_", "9", ".", "j", "s", "o", "n">>])

\* C24 (as stated): Locate fails with the unknown-segment error whenever a
\* segment, the first one included, matches neither a child group nor a
\* command of the node reached (for the first segment: the root).
C24_AsStated ==
    ( /\ IsSome(lc_result)
      /\ Len(lc_input) >= 1
      /\ lc_input[1] \notin GroupsOf(RootGroup) \cup CommandsOf(RootGroup) )
    => (Located.kind = "Err" /\ Located.what = "UnknownArgument")

\* C24 (amended): the first segment is taken as the service without being
\* looked up.  Locate fails with the unknown-segment error whenever a later
\* segment matches neither a child group nor a command of the group reached
\* so far, with the incomplete-command error when the segments are exhausted
\* on a group (the service segment alone included), and with the
\* unknown-segment error naming the next segment when a segment follows a
\* command; it succeeds only when the last segment is a command name.
C24_Walk ==
    (IsSome(lc_result) /\ Len(lc_input) >= 1) =>
        /\ Stops = {} => Located = LocateErr("NotACommand", <<>>)
        /\ Stops # {} =>
             LET reached == Unwrap(GroupAt(Stop - 1))
             IN  /\ lc_input[Stop] \notin CommandsOf(reached)
                     => Located = LocateErr("UnknownArgument", lc_input[Stop])
                 /\ (lc_input[Stop] \in CommandsOf(reached) /\ Stop < Len(lc_input))
                     => Located = LocateErr("UnknownArgument", lc_input[Stop + 1])
        /\ Located.kind = "Ok" => AtLeaf

\* z g h: h is a group of g as well as a command, the segments are exhausted
\* on the group.
C24_Witness ==
    /\ lc_input = << <<"z">>, <<"g">>, <<"h">> >>
    /\ IsSome(lc_index[<<"g">>].commands)
    /\ lc_result = Some(LocateErr("NotACommand", <<>>))

(***************************************************************************)
(* cli_expander.rs: Shell::escape                                          *)
(*   A serde_json::Value is [kind, text]: the string `text`, the number    *)
(*   whose digits are `text`, or the object { `text`: 123 }.               *)
(***************************************************************************)
\* The string as JSON writes it: quoted, with \ before " and \
RECURSIVE Quoted(_)
Quoted(text) ==
    IF Len(text) = 0 THEN <<>>
    ELSE (IF Head(text) \in {"\"", "\\"} THEN <<"\\", Head(text)>> ELSE <<Head(text)>>)
         \o Quoted(Tail(text))

\* Value::to_string(): the compact serialization
to_string(value) ==
    CASE value.kind = "string" -> <<"\"">> \o Quoted(value.text) \o <<"\"">>
      [] value.kind = "number" -> value.text
      [] value.kind = "object" ->
            <<"{", "\"">> \o Quoted(value.text) \o <<"\"", ":", "1", "2", "3", "}">>

\* Mutant of escape: every shell escapes with a backslash
RECURSIVE escape_Backslash(_, _)
escape_Backslash(shell, chars) ==
    IF Len(chars) = 0 THEN <<>>
    ELSE (IF Head(chars) = "\"" THEN <<"\\", "\"">> ELSE <<Head(chars)>>)
         \o escape_Backslash(shell, Tail(chars))

\* The loop `for c in chars` of Shell::escape
RECURSIVE escape(_, _)
escape(shell, chars) ==
    IF Len(chars) = 0 THEN <<>>
    ELSE (IF Head(chars) = "\""
          THEN (IF shell = "Unix" THEN <<"\\", "\"">> ELSE <<"\"", "\"">>)
          ELSE <<Head(chars)>>)
         \o escape(shell, Tail(chars))

(***************************************************************************)
(* Specification of Shell::escape as a function of its inputs              *)
(***************************************************************************)
MaxChars == 3

\* The values escaped: strings and object keys of a letter, a space, a
\* single and a double quote and a backslash; a number
EscapeArgs ==
    { [kind |-> k, text |-> t] :
        k \in {"string", "object"},
        t \in SeqsFrom0({"a", " ", "'", "\"", "\\"}, MaxChars) }
    \cup { [kind |-> "number", text |-> <<"1", "2", "3">>] }

InitEscape ==
    /\ es_shell \in {"Cmd", "PowerShell", "Unix"}
    /\ es_arg \in EscapeArgs
    /\ es_out = None
    /\ RunIdle
    /\ VpIdle
    /\ BbIdle
    /\ ExtIdle("escape")

\* shell.escape(&arg)
EscapeStep ==
    /\ IsNone(es_out)
    /\ es_out' = Some(<<"\"">>
                      \o escape(es_shell, IF es_arg.kind = "string" THEN es_arg.text
                                          ELSE to_string(es_arg))
                      \o <<"\"">>)
    /\ UNCHANGED <<es_shell, es_arg, run_vars, vp_vars, bb_vars, lc_vars, cr_vars, bk_vars>>

SpecEscape == InitEscape /\ [][EscapeStep]_vars

(***************************************************************************)
(* Claims about Shell::escape (checked under SpecEscape)                   *)
(***************************************************************************)
\* The text of the argument: the raw string, or the compact JSON
EscapedText == IF es_arg.kind = "string" THEN es_arg.text ELSE to_string(es_arg)

\* The number of double quotes among the first i characters of the text
QuotesUpto(i) == Cardinality({ j \in 1..i : EscapedText[j] = "\"" })

\* Where the i-th character of the text is in the result
PlaceOf(i) == 1 + i + QuotesUpto(i)

\* C27: the result is the text of the argument between one leading and one
\* trailing double quote, every character of the text in its order and
\* unchanged, with one escape character (a backslash for Unix, a double
\* quote for Cmd and PowerShell) right before each double quote of the text
\* and nothing else added.
C27_Escape ==
    IsSome(es_out) =>
        LET out == Unwrap(es_out)
            esc == IF es_shell = "Unix" THEN "\\" ELSE "\""
        IN  /\ Len(out) = Len(EscapedText) + QuotesUpto(Len(EscapedText)) + 2
            /\ out[1] = "\""
            /\ out[Len(out)] = "\""
            /\ \A i \in 1..Len(EscapedText) :
                  /\ out[PlaceOf(i)] = EscapedText[i]
                  /\ EscapedText[i] = "\"" => out[PlaceOf(i) - 1] = esc
            /\ es_arg.kind = "object" =>
                  /\ EscapedText[1] = "{"
                  /\ EscapedText[Len(EscapedText)] = "}"

\* PowerShell, the string a"' : "a""'"
C27_Witness ==
    /\ es_shell = "PowerShell"
    /\ es_arg = [kind |-> "string", text |-> <<"a", "\"", "'">>]
    /\ es_out = Some(<<"\"", "a", "\"", "\"", "'", "\"">>)

(***************************************************************************)
(* refreshable_credential.rs: RefreshableCredential::get_token, called     *)
(* concurrently on one credential that has a profile manager               *)
(*   RefreshTokenSession = [access_token : Option([token, expires_on]),    *)
(*                          refresh_token]                                 *)
(*   tokens are numbered by the exchange that issued them; time is in      *)
(*   minutes                                                               *)
(***************************************************************************)
FiveMinutes == 5
Callers == 2
MaxNow == 2

\* RefreshTokenSession::check_expiry(buffer), at the time `now`
check_expiry(session, now, buffer) ==
    IF IsSome(session.access_token)
    THEN Unwrap(session.access_token).expires_on <= now + buffer
    ELSE TRUE

NotReturned == [kind |-> "None", token |-> 0]

\* The sessions a credential is created from (the profile as loaded): no
\* access token, or the token 0 expiring in 5, 6 or 7 minutes
InitCredential ==
    /\ cr_session \in
          { [access_token |-> a, refresh_token |-> 0] :
              a \in {None} \cup { Some([token |-> 0, expires_on |-> e]) : e \in {5, 6, 7} } }
    /\ cr_profile = cr_session
    /\ cr_readers = {}
    /\ cr_writer = None
    /\ cr_pc = [p \in 1..Callers |-> "start"]
    /\ cr_new = [p \in 1..Callers |-> None]
    /\ cr_ret = [p \in 1..Callers |-> NotReturned]
    /\ cr_exchanges = 0
    /\ cr_now = 0
    /\ RunIdle
    /\ VpIdle
    /\ BbIdle
    /\ ExtIdle("credential")

\* The clock moves on
Tick ==
    /\ cr_now < MaxNow
    /\ cr_now' = cr_now + 1
    /\ UNCHANGED <<cr_session, cr_profile, cr_readers, cr_writer, cr_pc, cr_new, cr_ret,
                   cr_exchanges, run_vars, vp_vars, bb_vars, lc_vars, es_vars, bk_vars>>

\* 132-142: the read lock is acquired and the expiry checked; a token that
\* is still valid is returned, otherwise the exchange starts under the lock
ReadSession(p) ==
    /\ cr_pc[p] = "start"
    /\ IsNone(cr_writer)
    /\ IF ~check_expiry(cr_session, cr_now, FiveMinutes)
       THEN /\ cr_ret' = [cr_ret EXCEPT ![p] =
                            [kind |-> "Ok", token |-> Unwrap(cr_session.access_token).token]]
            /\ cr_pc' = [cr_pc EXCEPT ![p] = "done"]
            /\ UNCHANGED cr_readers
       ELSE /\ cr_readers' = cr_readers \cup {p}
            /\ cr_pc' = [cr_pc EXCEPT ![p] = "exchange"]
            /\ UNCHANGED cr_ret
    /\ UNCHANGED <<cr_session, cr_profile, cr_writer, cr_new, cr_exchanges, cr_now,
                   run_vars, vp_vars, bb_vars, lc_vars, es_vars, bk_vars>>

\* 143-152 (47-84): session.refresh(..).await under the read lock: the
\* exchange fails, or answers a token living 3 or 8 minutes, with or without
\* a new refresh token; the read lock is released
Exchange(p) ==
    /\ cr_pc[p] = "exchange"
    /\ cr_exchanges' = cr_exchanges + 1
    /\ cr_readers' = cr_readers \ {p}
    /\ \/ /\ cr_ret' = [cr_ret EXCEPT ![p] = [kind |-> "ErrRefresh", token |-> 0]]
          /\ cr_pc' = [cr_pc EXCEPT ![p] = "done"]
          /\ UNCHANGED cr_new
       \/ \E expires_in \in {3, 8}, rotated \in BOOLEAN :
             /\ cr_new' = [cr_new EXCEPT ![p] =
                   Some([access_token |-> Some([token |-> cr_exchanges + 1,
                                                expires_on |-> cr_now + expires_in]),
                         refresh_token |-> IF rotated THEN cr_exchanges + 1
                                           ELSE cr_session.refresh_token])]
             /\ cr_pc' = [cr_pc EXCEPT ![p] = "write"]
             /\ UNCHANGED cr_ret
    /\ UNCHANGED <<cr_session, cr_profile, cr_writer, cr_now,
                   run_vars, vp_vars, bb_vars, lc_vars, es_vars, bk_vars>>

\* 155: self.session.write().await
WriteSession(p) ==
    /\ cr_pc[p] = "write"
    /\ IsNone(cr_writer)
    /\ cr_readers = {}
    /\ cr_writer' = Some(p)
    /\ cr_pc' = [cr_pc EXCEPT ![p] = "persist"]
    /\ UNCHANGED <<cr_session, cr_profile, cr_readers, cr_new, cr_ret, cr_exchanges, cr_now,
                   run_vars, vp_vars, bb_vars, lc_vars, es_vars, bk_vars>>

\* Mutant of Persist: a call that fails has written the file all the same
Persist_WrittenOnFailure(p) ==
    /\ cr_pc[p] = "persist"
    /\ cr_profile' = Unwrap(cr_new[p])
    /\ \/ /\ cr_pc' = [cr_pc EXCEPT ![p] = "replace"]
          /\ UNCHANGED <<cr_ret, cr_writer>>
       \/ /\ cr_ret' = [cr_ret EXCEPT ![p] = [kind |-> "ErrProfile", token |-> 0]]
          /\ cr_pc' = [cr_pc EXCEPT ![p] = "done"]
          /\ cr_writer' = None
    /\ UNCHANGED <<cr_session, cr_readers, cr_new, cr_exchanges, cr_now,
                   run_vars, vp_vars, bb_vars, lc_vars, es_vars, bk_vars>>

\* 156-166 (profile.rs:61-70): profile_manager.refresh(new_session).await
\* under the write lock: the file is written, or the call fails
Persist(p) ==
    /\ cr_pc[p] = "persist"
    /\ \/ /\ cr_profile' = Unwrap(cr_new[p])
          /\ cr_pc' = [cr_pc EXCEPT ![p] = "replace"]
          /\ UNCHANGED <<cr_ret, cr_writer>>
       \/ /\ cr_ret' = [cr_ret EXCEPT ![p] = [kind |-> "ErrProfile", token |-> 0]]
          /\ cr_pc' = [cr_pc EXCEPT ![p] = "done"]
          /\ cr_writer' = None
          /\ UNCHANGED cr_profile
    /\ UNCHANGED <<cr_session, cr_readers, cr_new, cr_exchanges, cr_now,
                   run_vars, vp_vars, bb_vars, lc_vars, es_vars, bk_vars>>

\* 167-175: *session = new_session, the new token is returned and the write
\* lock released
ReplaceSession(p) ==
    /\ cr_pc[p] = "replace"
    /\ cr_session' = Unwrap(cr_new[p])
    /\ cr_ret' = [cr_ret EXCEPT ![p] =
                    [kind |-> "Ok", token |-> Unwrap(Unwrap(cr_new[p]).access_token).token]]
    /\ cr_pc' = [cr_pc EXCEPT ![p] = "done"]
    /\ cr_writer' = None
    /\ UNCHANGED <<cr_profile, cr_readers, cr_new, cr_exchanges, cr_now,
                   run_vars, vp_vars, bb_vars, lc_vars, es_vars, bk_vars>>

NextCredential ==
    \/ Tick
    \/ \E p \in 1..Callers :
          \/ ReadSession(p)
          \/ Exchange(p)
          \/ WriteSession(p)
          \/ Persist(p)
          \/ ReplaceSession(p)

SpecCredential == InitCredential /\ [][NextCredential]_vars

(***************************************************************************)
(* Claims about get_token (checked under SpecCredential)                   *)
(***************************************************************************)
\* C30: under any interleaving of the calls, the in-memory session is
\* replaced only by the call holding the write lock and only with the
\* session that call has persisted, so that whenever the write lock is free
\* the in-memory session is the persisted one; a call whose persisting fails
\* returns the error and leaves the in-memory session (and the file) as they
\* were; a call that finds a token not expiring within five minutes returns
\* that token without an exchange.
C30_SessionCoherent ==
    /\ [] ( /\ IsNone(cr_writer) => cr_session = cr_profile
            /\ \A p \in 1..Callers :
                  cr_ret[p].kind = "ErrProfile" => cr_pc[p] = "done" )
    /\ [][ /\ cr_session' # cr_session =>
                \E p \in 1..Callers :
                    /\ cr_writer = Some(p)
                    /\ cr_profile = Unwrap(cr_new[p])
                    /\ cr_session' = cr_profile
           /\ \A p \in 1..Callers :
                 /\ (cr_ret'[p].kind = "ErrProfile" /\ cr_ret[p].kind # "ErrProfile")
                       => (cr_session' = cr_session /\ cr_profile' = cr_profile)
                 /\ ( /\ cr_pc[p] = "start"
                      /\ cr_pc'[p] # "start"
                      /\ IsSome(cr_session.access_token)
                      /\ Unwrap(cr_session.access_token).expires_on > cr_now + FiveMinutes )
                       => /\ cr_ret'[p] = [kind |-> "Ok",
                                           token |-> Unwrap(cr_session.access_token).token]
                          /\ cr_exchanges' = cr_exchanges
                          /\ cr_pc'[p] = "done" ]_vars

\* Both calls made an exchange; the first failed to persist its session, the
\* second persisted and installed its own.
C30_Witness ==
    /\ cr_ret[1].kind = "ErrProfile"
    /\ cr_ret[2] = [kind |-> "Ok", token |-> 2]
    /\ cr_exchanges = 2
    /\ IsNone(cr_writer)
    /\ cr_session = cr_profile
    /\ Unwrap(cr_session.access_token).token = 2

(***************************************************************************)
(* api.rs: ApiManager::run, the --stdin loop (54-124)                      *)
(*   A line is what decides how far the loop body gets with it: it cannot  *)
(*   be read, is not a JSON object, has no "id", has an "id" that is not a *)
(*   string, has an id no operation is selected for, has a body that the   *)
(*   schema rejects, or is a record whose invocation answers its text.     *)
(*   What run returns is [kind, what, line, text].                         *)
(***************************************************************************)
MaxLines == 3

LineFaults == {"ErrRead", "ErrJson", "ErrNoId", "ErrIdNotStr", "ErrSelect", "ErrBody"}
BulkLines == SeqsFrom0(LineFaults \cup {"a", "b"}, MaxLines)

InitBulk ==
    /\ bk_lines \in BulkLines
    /\ bk_print_cli \in BOOLEAN
    /\ bk_next = 1
    /\ bk_pc = "loop"
    /\ bk_results = <<>>
    /\ bk_invoked = <<>>
    /\ bk_ret = None
    /\ RunIdle
    /\ VpIdle
    /\ BbIdle
    /\ ExtIdle("bulk")

\* Mutant of BulkLine: a line that fails is skipped
BulkLine_SkipsFaults ==
    /\ bk_pc = "loop"
    /\ IsNone(bk_ret)
    /\ bk_next <= Len(bk_lines)
    /\ LET line == bk_lines[bk_next]
       IN  IF line \in LineFaults
           THEN /\ bk_next' = bk_next + 1
                /\ UNCHANGED <<bk_ret, bk_pc, bk_results, bk_invoked>>
           ELSE IF bk_print_cli
           THEN /\ bk_results' = Append(bk_results, <<"$", line>>)
                /\ bk_next' = bk_next + 1
                /\ UNCHANGED <<bk_ret, bk_pc, bk_invoked>>
           ELSE /\ bk_invoked' = Append(bk_invoked, bk_next)
                /\ bk_pc' = "invoke"
                /\ UNCHANGED <<bk_ret, bk_next, bk_results>>
    /\ UNCHANGED <<bk_lines, bk_print_cli, run_vars, vp_vars, bb_vars, lc_vars, es_vars, cr_vars>>

\* 59-120: one turn of the loop, up to the call of invoke: every `?` on the
\* way returns the error; with --print-cli the command line is pushed
BulkLine ==
    /\ bk_pc = "loop"
    /\ IsNone(bk_ret)
    /\ bk_next <= Len(bk_lines)
    /\ LET line == bk_lines[bk_next]
       IN  IF line \in LineFaults
           THEN /\ bk_ret' = Some([kind |-> "Err", what |-> line, line |-> bk_next,
                                   text |-> <<>>])
                /\ UNCHANGED <<bk_next, bk_pc, bk_results, bk_invoked>>
           ELSE IF bk_print_cli
           THEN /\ bk_results' = Append(bk_results, <<"$", line>>)
                /\ bk_next' = bk_next + 1
                /\ UNCHANGED <<bk_ret, bk_pc, bk_invoked>>
           ELSE /\ bk_invoked' = Append(bk_invoked, bk_next)
                /\ bk_pc' = "invoke"
                /\ UNCHANGED <<bk_ret, bk_next, bk_results>>
    /\ UNCHANGED <<bk_lines, bk_print_cli, run_vars, vp_vars, bb_vars, lc_vars, es_vars, cr_vars>>

\* 120-121: invoker.invoke(&client).await? answers, or fails
BulkInvoked ==
    /\ bk_pc = "invoke"
    /\ \/ /\ bk_results' = Append(bk_results, <<bk_lines[bk_next]>>)
          /\ bk_next' = bk_next + 1
          /\ bk_pc' = "loop"
          /\ UNCHANGED bk_ret
       \/ /\ bk_ret' = Some([kind |-> "Err", what |-> "ErrInvoke", line |-> bk_next,
                             text |-> <<>>])
          /\ bk_pc' = "loop"
          /\ UNCHANGED <<bk_next, bk_results>>
    /\ UNCHANGED <<bk_lines, bk_print_cli, bk_invoked,
                   run_vars, vp_vars, bb_vars, lc_vars, es_vars, cr_vars>>

\* 123: return Ok(results.join("\n"))
BulkReturn ==
    /\ bk_pc = "loop"
    /\ IsNone(bk_ret)
    /\ bk_next > Len(bk_lines)
    /\ bk_ret' = Some([kind |-> "Ok", what |-> "", line |-> 0,
                       text |-> Join(bk_results, "\n")])
    /\ UNCHANGED <<bk_lines, bk_print_cli, bk_next, bk_pc, bk_results, bk_invoked,
                   run_vars, vp_vars, bb_vars, lc_vars, es_vars, cr_vars>>

SpecBulk == InitBulk /\ [][BulkLine \/ BulkInvoked \/ BulkReturn]_vars

(***************************************************************************)
(* Claims about the --stdin loop (checked under SpecBulk)                  *)
(***************************************************************************)
\* C28: the lines are invoked one by one in input order, a line only after
\* every line before it has answered; what is returned in the end is the
\* lines' results in input order joined by newlines; when a line fails
\* (unreadable, not JSON, no id, id not a string, no operation selected,
\* invocation error) run returns that line's error without the results, and
\* no later line is invoked then or afterwards.
C28_Sequential ==
    /\ [] ( /\ \A k \in 1..Len(bk_invoked) : bk_invoked[k] = k
            /\ \A k \in 1..Len(bk_lines) : bk_lines[k] \in LineFaults => bk_next <= k
            /\ ~bk_print_cli =>
                 Len(bk_invoked) = Len(bk_results) + (IF bk_pc = "invoke" THEN 1 ELSE 0)
                                     + (IF IsSome(bk_ret) /\ Unwrap(bk_ret).what = "ErrInvoke"
                                        THEN 1 ELSE 0)
            /\ \A k \in 1..Len(bk_results) :
                  bk_results[k] = IF bk_print_cli THEN <<"$", bk_lines[k]>> ELSE <<bk_lines[k]>>
            /\ IsSome(bk_ret) =>
                 LET ret == Unwrap(bk_ret)
                 IN  IF ret.kind = "Ok"
                     THEN /\ Len(bk_results) = Len(bk_lines)
                          /\ \A k \in 1..Len(bk_lines) : bk_lines[k] \notin LineFaults
                          /\ ret.text = Join(bk_results, "\n")
                     ELSE /\ ret.text = <<>>
                          /\ Len(bk_results) = ret.line - 1
                          /\ \A k \in 1..(ret.line - 1) : bk_lines[k] \notin LineFaults
                          /\ bk_lines[ret.line] \in LineFaults => ret.what = bk_lines[ret.line]
                          /\ \A k \in 1..Len(bk_invoked) : bk_invoked[k] <= ret.line )
    /\ [][IsSome(bk_ret) => (bk_invoked' = bk_invoked /\ bk_results' = bk_results)]_vars

\* a, then a line that is not JSON, then b: a was invoked and answered, the
\* second line's error is returned, b was never invoked.
C28_Witness ==
    /\ bk_lines = <<"a", "ErrJson", "b">>
    /\ ~bk_print_cli
    /\ bk_invoked = <<1>>
    /\ bk_results = << <<"a">> >>
    /\ bk_ret = Some([kind |-> "Err", what |-> "ErrJson", line |-> 2, text |-> <<>>])

====
